---- MODULE Spec2Model ----
(***************************************************************************)
(* Model of the Streamable HTTP transport of the exercise MCP server       *)
(* (src/mcp-streamable-handler.js): the three Lambda entry points mcpPost, *)
(* mcpGet and mcpOptions, the origin validator, the SSE framing and the    *)
(* tool / resource dispatchers.                                            *)
(*                                                                         *)
(* JavaScript strings are sequences of tokens (TLA+ strings); string       *)
(* concatenation is \o and String.prototype.includes is a contiguous       *)
(* sub-sequence test.  JavaScript values are records [t, n, s, m].         *)
(***************************************************************************)
EXTENDS Integers, Sequences, FiniteSets, TLC

(***************************************************************************)
(* Bounds of the model.                                                    *)
(***************************************************************************)
MaxClock == 1
MaxNum == 5

(***************************************************************************)
(* JavaScript values.                                                      *)
(***************************************************************************)
\* A value is [t, n, s, m]: its type tag, its number (1 or 0 for a
\* boolean), its string and its members <<key, value>> (the elements of an
\* array are members with the key "").
Undefined == [t |-> "undef", n |-> 0, s |-> <<>>, m |-> <<>>]
Null == [t |-> "null", n |-> 0, s |-> <<>>, m |-> <<>>]
Num(n) == [t |-> "num", n |-> n, s |-> <<>>, m |-> <<>>]
Str(s) == [t |-> "str", n |-> 0, s |-> s, m |-> <<>>]
Bool(b) == [t |-> "bool", n |-> IF b THEN 1 ELSE 0, s |-> <<>>, m |-> <<>>]
Arr(es) == [t |-> "arr", n |-> 0, s |-> <<>>, m |-> [i \in 1..Len(es) |-> <<"", es[i]>>]]
Obj(ms) == [t |-> "obj", n |-> 0, s |-> <<>>, m |-> ms]

\* The elements of an array.
Elems(x) == [i \in 1..Len(x.m) |-> x.m[i][2]]

\* A one-token string literal.
Lit(s) == Str(<<s>>)

\* ToBoolean of the language: undefined, null, 0, '' and false are falsy.
Truthy(x) ==
  CASE x.t = "undef" -> FALSE
    [] x.t = "null" -> FALSE
    [] x.t = "num" -> x.n # 0
    [] x.t = "str" -> x.s # <<>>
    [] x.t = "bool" -> x.n = 1
    [] OTHER -> TRUE

\* a || b
OrElse(a, b) == IF Truthy(a) THEN a ELSE b

\* Property read obj.key on an object: the last member of that name, or
\* undefined.
RECURSIVE Lookup(_, _, _)
Lookup(ms, key, i) ==
  IF i = 0 THEN Undefined
  ELSE IF ms[i][1] = key THEN ms[i][2] ELSE Lookup(ms, key, i - 1)

Get(o, key) == IF o.t = "obj" THEN Lookup(o.m, key, Len(o.m)) ELSE Undefined

Has(o, key) == o.t = "obj" /\ \E i \in 1..Len(o.m) : o.m[i][1] = key

\* Reading a property of undefined or null throws a TypeError; so does
\* destructuring it.
CanRead(x) == x.t \notin {"undef", "null"}

\* String.prototype.includes / Array.prototype.includes on token sequences.
Includes(hay, needle) ==
  \E i \in 0..(Len(hay) - Len(needle)) :
    \A j \in 1..Len(needle) : hay[i + j] = needle[j]

\* Template-literal interpolation `${x}` of a value into a string.
Interp(x) ==
  CASE x.t = "undef" -> <<"undefined">>
    [] x.t = "null" -> <<"null">>
    [] x.t = "num" -> <<ToString(x.n)>>
    [] x.t = "str" -> x.s
    [] x.t = "bool" -> <<IF x.n = 1 THEN "true" ELSE "false">>
    [] OTHER -> <<"[object Object]">>

(***************************************************************************)
(* JSON.stringify and JSON.parse on token sequences.                       *)
(***************************************************************************)
NumRange == {-32603, -32601, -32001} \cup (-1..MaxNum)
NumTokens == {ToString(n) : n \in NumRange}
NumOf(tok) == CHOOSE n \in NumRange : ToString(n) = tok

Quote == "\""
EscQuote == "\\\""
Backslash == "\\"
EscBackslash == "\\\\"

EscapeTok(tok) ==
  IF tok = Quote THEN EscQuote
  ELSE IF tok = Backslash THEN EscBackslash ELSE tok

UnescapeTok(tok) ==
  IF tok = EscQuote THEN Quote
  ELSE IF tok = EscBackslash THEN Backslash ELSE tok

Escape(s) == [i \in 1..Len(s) |-> EscapeTok(s[i])]

RECURSIVE JSONStringify(_)
RECURSIVE StringifyMembers(_, _, _)
RECURSIVE StringifyElems(_, _)

\* JSON.stringify(x): members whose value is undefined are dropped, an
\* undefined array element is written as null.
JSONStringify(x) ==
  CASE x.t = "null" -> <<"null">>
    [] x.t = "num" -> <<ToString(x.n)>>
    [] x.t = "bool" -> <<IF x.n = 1 THEN "true" ELSE "false">>
    [] x.t = "str" -> <<Quote>> \o Escape(x.s) \o <<Quote>>
    [] x.t = "arr" -> <<"[">> \o StringifyElems(Elems(x), 1) \o <<"]">>
    [] x.t = "obj" -> <<"{">> \o StringifyMembers(x.m, 1, TRUE) \o <<"}">>
    [] OTHER -> <<"undefined">>

StringifyMembers(ms, i, first) ==
  IF i > Len(ms) THEN <<>>
  ELSE IF ms[i][2].t = "undef" THEN StringifyMembers(ms, i + 1, first)
  ELSE (IF first THEN <<>> ELSE <<",">>)
       \o <<Quote, ms[i][1], Quote, ":">> \o JSONStringify(ms[i][2])
       \o StringifyMembers(ms, i + 1, FALSE)

StringifyElems(es, i) ==
  IF i > Len(es) THEN <<>>
  ELSE (IF i = 1 THEN <<>> ELSE <<",">>)
       \o (IF es[i].t = "undef" THEN <<"null">> ELSE JSONStringify(es[i]))
       \o StringifyElems(es, i + 1)

\* Result of a parse step: ok, the value read, the index after it.
PFail == [ok |-> FALSE, v |-> Undefined, i |-> 0]
POk(x, i) == [ok |-> TRUE, v |-> x, i |-> i]

RECURSIVE ParseValue(_, _)
RECURSIVE ParseMembers(_, _, _)
RECURSIVE ParseElems(_, _, _)

\* A string from its first token at i to the closing quote: the tokens
\* between, each unescaped.
ParseStr(toks, i) ==
  IF \A j \in i..Len(toks) : toks[j] # Quote THEN PFail
  ELSE LET close == CHOOSE j \in i..Len(toks) :
                      toks[j] = Quote /\ \A k \in i..(j - 1) : toks[k] # Quote
       IN  POk(Str([k \in 1..(close - i) |-> UnescapeTok(toks[i + k - 1])]), close + 1)

ParseValue(toks, i) ==
  IF i > Len(toks) THEN PFail
  ELSE LET c == toks[i] IN
    CASE c = "null" -> POk(Null, i + 1)
      [] c = "true" -> POk(Bool(TRUE), i + 1)
      [] c = "false" -> POk(Bool(FALSE), i + 1)
      [] c = Quote -> ParseStr(toks, i + 1)
      [] c = "{" ->
           IF i + 1 <= Len(toks) /\ toks[i + 1] = "}"
           THEN POk(Obj(<<>>), i + 2)
           ELSE ParseMembers(toks, i + 1, <<>>)
      [] c = "[" ->
           IF i + 1 <= Len(toks) /\ toks[i + 1] = "]"
           THEN POk(Arr(<<>>), i + 2)
           ELSE ParseElems(toks, i + 1, <<>>)
      [] c \in NumTokens -> POk(Num(NumOf(c)), i + 1)
      [] OTHER -> PFail

ParseMembers(toks, i, acc) ==
  IF i > Len(toks) \/ toks[i] # Quote THEN PFail
  ELSE LET k == ParseStr(toks, i + 1) IN
    IF ~k.ok \/ Len(k.v.s) # 1 \/ k.i > Len(toks) \/ toks[k.i] # ":"
    THEN PFail
    ELSE LET m == ParseValue(toks, k.i + 1) IN
      IF ~m.ok \/ m.i > Len(toks) THEN PFail
      ELSE LET acc2 == Append(acc, <<k.v.s[1], m.v>>) IN
        IF toks[m.i] = "}" THEN POk(Obj(acc2), m.i + 1)
        ELSE IF toks[m.i] = "," THEN ParseMembers(toks, m.i + 1, acc2)
        ELSE PFail

ParseElems(toks, i, acc) ==
  LET m == ParseValue(toks, i) IN
    IF ~m.ok \/ m.i > Len(toks) THEN PFail
    ELSE LET acc2 == Append(acc, m.v) IN
      IF toks[m.i] = "]" THEN POk(Arr(acc2), m.i + 1)
      ELSE IF toks[m.i] = "," THEN ParseElems(toks, m.i + 1, acc2)
      ELSE PFail

\* JSON.parse(text): [ok |-> FALSE] stands for the SyntaxError it throws.
JSONParse(toks) ==
  LET Whole(r) == IF r.ok /\ r.i = Len(toks) + 1 THEN [ok |-> TRUE, v |-> r.v]
                  ELSE [ok |-> FALSE, v |-> Undefined]
  IN  Whole(ParseValue(toks, 1))

\* JSON.stringify(x, null, 2): the same text as JSON.stringify(x) up to the
\* indentation white space, which the token model does not represent.
JSONStringifyPretty(x) == JSONStringify(x)

(***************************************************************************)
(* StreamableHTTPMCPServer: origin validation and SSE framing.             *)
(***************************************************************************)
allowedOrigins == << <<"https://", "your-domain.com">>, <<"https://", "claude.ai">> >>

\* A faulty validateOrigin: the 127.0.0.1 clause is forgotten.
validateOrigin_noLoopback(origin) ==
  IF ~Truthy(origin) THEN TRUE
  ELSE IF Includes(origin.s, <<"localhost">>) THEN TRUE
  ELSE \E i \in 1..Len(allowedOrigins) : allowedOrigins[i] = origin.s

\* validateOrigin(origin): origin is undefined or a string.
validateOrigin(origin) ==
  IF ~Truthy(origin) THEN TRUE
  ELSE IF Includes(origin.s, <<"localhost">>) \/ Includes(origin.s, <<"127.0.0.1">>)
  THEN TRUE
  ELSE \E i \in 1..Len(allowedOrigins) : allowedOrigins[i] = origin.s

\* A default parameter value applies when the argument is undefined.
Default(x, d) == IF x.t = "undef" THEN d ELSE x

\* formatSSEMessage(data, event = 'message', id = null)
formatSSEMessage(data, event, id) ==
  LET ev == Default(event, Lit("message"))
      i == Default(id, Null)
  IN  (IF Truthy(i) THEN <<"id: ">> \o Interp(i) \o <<"\n">> ELSE <<>>)
      \o (IF Truthy(ev) THEN <<"event: ">> \o Interp(ev) \o <<"\n">> ELSE <<>>)
      \o <<"data: ">> \o JSONStringify(data) \o <<"\n\n">>

(***************************************************************************)
(* Static tables served by mcpPost.                                        *)
(***************************************************************************)
\* The deployment variant: 1 is the server with create_workout_program,
\* 2 the server without it.
Variants == {1, 2}

ToolDescriptor(name, description) ==
  Obj(<< <<"name", Lit(name)>>,
         <<"description", Lit(description)>>,
         <<"inputSchema", Obj(<< <<"type", Lit("object")>> >>)>> >>)

\* A faulty table: create_workout_program is not listed.
ToolTable_withoutCreate(variant) ==
  << ToolDescriptor("get_exercises", "Retrieve exercises from the database with optional filtering"),
     ToolDescriptor("get_exercise_by_id", "Retrieve a specific exercise by its ID"),
     ToolDescriptor("search_exercises", "Search exercises with advanced filtering options") >>

ToolTable(variant) ==
  << ToolDescriptor("get_exercises", "Retrieve exercises from the database with optional filtering"),
     ToolDescriptor("get_exercise_by_id", "Retrieve a specific exercise by its ID"),
     ToolDescriptor("search_exercises", "Search exercises with advanced filtering options") >>
  \o (IF variant = 1
      THEN << ToolDescriptor("create_workout_program", "Create a workout program with multiple workouts in the database") >>
      ELSE <<>>)

ResourceDescriptor(uri, name, description) ==
  Obj(<< <<"uri", Str(uri)>>,
         <<"name", Lit(name)>>,
         <<"description", Lit(description)>>,
         <<"mimeType", Lit("application/json")>> >>)

ExercisesUri == <<"exercise://", "exercises">>
CategoriesUri == <<"exercise://", "categories">>
StatsUri == <<"exercise://", "stats">>

ResourceTable ==
  << ResourceDescriptor(ExercisesUri, "All Exercises", "Complete list of all published exercises"),
     ResourceDescriptor(CategoriesUri, "Exercise Categories", "List of all exercise categories"),
     ResourceDescriptor(StatsUri, "Exercise Statistics", "Statistics about exercises in the database") >>

InitializeResult ==
  Obj(<< <<"protocolVersion", Lit("2025-06-18")>>,
         <<"capabilities", Obj(<< <<"tools", Obj(<<>>)>>, <<"resources", Obj(<<>>)>>,
                                  <<"prompts", Obj(<<>>)>>, <<"logging", Obj(<<>>)>> >>)>>,
         <<"serverInfo", Obj(<< <<"name", Lit("ms-exercise-mcp")>>,
                                <<"version", Lit("1.0.0")>> >>)>> >>)

\* A faulty envelope: a result is accompanied by a null error member.
ResultResponse_nullError(id, result) ==
  Obj(<< <<"jsonrpc", Lit("2.0")>>, <<"id", id>>, <<"result", result>>, <<"error", Null>> >>)

\* The JSON-RPC envelopes mcpPost builds.
ResultResponse(id, result) ==
  Obj(<< <<"jsonrpc", Lit("2.0")>>, <<"id", id>>, <<"result", result>> >>)

ErrorResponse(id, code, message, data) ==
  Obj(<< <<"jsonrpc", Lit("2.0")>>, <<"id", id>>,
         <<"error", Obj(<< <<"code", Num(code)>>, <<"message", Lit(message)>>,
                           <<"data", Str(data)>> >>)>> >>)

\* A faulty 500 body: the message of the error is not reported.
InternalErrorBody_noData(data) ==
  Obj(<< <<"jsonrpc", Lit("2.0")>>,
         <<"error", Obj(<< <<"code", Num(-32603)>>, <<"message", Lit("Internal error")>> >>)>>,
         <<"id", Null>> >>)

\* The 500 body: the error member precedes id, which is null.
InternalErrorBody(data) ==
  Obj(<< <<"jsonrpc", Lit("2.0")>>,
         <<"error", Obj(<< <<"code", Num(-32603)>>, <<"message", Lit("Internal error")>>,
                           <<"data", Str(data)>> >>)>>,
         <<"id", Null>> >>)

\* The response headers.
ContentTypeJson == << <<"Content-Type", Lit("application/json")>> >>
CorsHeaders ==
  << <<"Access-Control-Allow-Origin", Lit("*")>>,
     <<"Access-Control-Allow-Headers", Lit("Content-Type, Accept, Origin")>>,
     <<"Access-Control-Allow-Methods", Lit("GET, POST, OPTIONS")>> >>
SseHeaders(sessionId) ==
  << <<"Content-Type", Lit("text/event-stream")>>,
     <<"Cache-Control", Lit("no-cache")>>,
     <<"Connection", Lit("keep-alive")>> >>
  \o CorsHeaders \o << <<"X-Session-ID", sessionId>> >>

\* The value a Lambda handler returns.
HttpResponse(statusCode, headers, body) ==
  Obj(<< <<"statusCode", Num(statusCode)>>, <<"headers", Obj(headers)>>,
         <<"body", Str(body)>> >>)

\* The value returned for an SSE stream carries isBase64Encoded: false.
StreamResponse(headers, body) ==
  Obj(<< <<"statusCode", Num(200)>>, <<"headers", Obj(headers)>>,
         <<"body", Str(body)>>, <<"isBase64Encoded", Bool(FALSE)>> >>)

RawError(text) == JSONStringify(Obj(<< <<"error", Lit(text)>> >>))

\* Date.now().toString()
SessionIdOf(now) == Lit(ToString(now))

(***************************************************************************)
(* The content repository (ContentItems) and the database connection.      *)
(* A document is a record; the server state st is                          *)
(* [readyState, docs, nextId]; env holds the outcomes the environment      *)
(* chooses for one invocation: whether mongoose.connect succeeds and which *)
(* repository call, if any, rejects.                                       *)
(***************************************************************************)
\* A content item, on the fields the queries and the responses read:
\* published_at stands for created_at and updated_at too, which
\* createDefaultContentItem sets to the same instant.
Doc(id, type, meta, published, cats, title) ==
  [id |-> id, item_type |-> type, meta |-> meta, published_at |-> published,
   cats |-> cats, title |-> title, slug |-> <<id>>, duration |-> 0,
   sections |-> <<>>]

InitialDocs ==
  << Doc("e1", "exercise", TRUE, Num(1), <<"c1">>, <<"Push", " ", "Up">>),
     Doc("e2", "exercise", TRUE, Null, <<"c2">>, <<"Squat">>),
     Doc("e3", "exercise", FALSE, Num(2), <<"c1">>, <<"Plank">>),
     Doc("w1", "workouts", TRUE, Num(1), <<"c1">>, <<"Morning">>) >>

ConnectError == <<"connect ECONNREFUSED">>
RepositoryError == <<"repository unavailable">>

\* What a call of an async method yields: a returned value or a thrown
\* error (its message), the state it leaves and the operations it ran.
Ret(x, st, ops) ==
  [k |-> "ret", v |-> x, msg |-> <<>>, st |-> st, ops |-> ops, caught |-> <<>>]
Throw(msg, st, ops) ==
  [k |-> "throw", v |-> Undefined, msg |-> msg, st |-> st, ops |-> ops, caught |-> <<>>]

\* The repository calls of an outcome.
RepoOps == {"aggregate", "findOne", "distinct", "create"}
CountRepo(ops) == Cardinality({i \in 1..Len(ops) : ops[i] \in RepoOps})

\* Does the next repository call after ops reject?
Rejects(env, ops) == env.failAt = CountRepo(ops) + 1

DestructureError(prop, what, x) ==
  <<"Cannot destructure property '", prop, "' of '", what, "' as it is ">>
  \o Interp(x) \o <<".">>

\* A faulty ensureDbConnection: it connects on every call, whatever the
\* connection state.
ensureDbConnection_eager(st, env) ==
  IF env.connectOk
  THEN Ret(Undefined, [st EXCEPT !.readyState = 1], <<"connect">>)
  ELSE Throw(ConnectError, st, <<"connect">>)

\* ensureDbConnection(): connect only when readyState is 0 (disconnected).
ensureDbConnection(st, env) ==
  IF st.readyState = 0
  THEN IF env.connectOk
       THEN Ret(Undefined, [st EXCEPT !.readyState = 1], <<"connect">>)
       ELSE Throw(ConnectError, st, <<"connect">>)
  ELSE Ret(Undefined, st, <<>>)

\* The filter every exercise query starts with.
ExerciseMatch(d) == d.item_type = "exercise" /\ d.meta

HasCategory(d, c) == \E i \in 1..Len(d.cats) : Lit(d.cats[i]) = c

SortKey(d) == IF d.published_at.t = "num" THEN d.published_at.n ELSE -1

\* $sort: { published_at: -1 }
RECURSIVE SortByPublishedDesc(_)
SortByPublishedDesc(ds) ==
  IF Len(ds) <= 1 THEN ds
  ELSE LET rest == SortByPublishedDesc(Tail(ds))
           before == SelectSeq(rest, LAMBDA d : SortKey(d) > SortKey(Head(ds)))
           after == SelectSeq(rest, LAMBDA d : SortKey(d) <= SortKey(Head(ds)))
       IN  before \o <<Head(ds)>> \o after

Strs(xs) == Arr([i \in 1..Len(xs) |-> Lit(xs[i])])

\* The projection of a document into a response, on the fields a document
\* of the model has.
ExerciseView(d) ==
  Obj(<< <<"id", Lit(d.id)>>, <<"slug", Str(d.slug)>>,
         <<"title", OrElse(Str(d.title), Lit("Untitled Exercise"))>>,
         <<"published_at", d.published_at>>,
         <<"categories", Strs(d.cats)>> >>)

Views(ds) == Arr([i \in 1..Len(ds) |-> ExerciseView(ds[i])])

TextContent(text) ==
  Obj(<< <<"content", Arr(<< Obj(<< <<"type", Lit("text")>>, <<"text", Str(text)>> >>) >>)>> >>)

ResourceContent(uri, payload) ==
  Obj(<< <<"contents", Arr(<< Obj(<< <<"uri", Str(uri)>>,
                                     <<"mimeType", Lit("application/json")>>,
                                     <<"text", Str(JSONStringifyPretty(payload))>> >>) >>)>> >>)

\* getExercises(args = {})
getExercises(args0, st, env) ==
  LET args == Default(args0, Obj(<<>>)) IN
  IF ~CanRead(args) THEN Throw(DestructureError("limit", "args", args), st, <<>>)
  ELSE
    LET limit == Default(Get(args, "limit"), Num(10))
        skip == Default(Get(args, "skip"), Num(0))
        category == Get(args, "category")
        search == Get(args, "search")
        matched == SelectSeq(st.docs, LAMBDA d :
                     /\ ExerciseMatch(d)
                     /\ (Truthy(category) => HasCategory(d, category))
                     /\ (Truthy(search) => search.t = "str" /\ Includes(d.title, search.s)))
        sorted == SortByPublishedDesc(matched)
        from == IF skip.n > 0 THEN skip.n + 1 ELSE 1
        to == IF from + limit.n - 1 < Len(sorted) THEN from + limit.n - 1 ELSE Len(sorted)
        exercises == SubSeq(sorted, from, to)
        badStage == limit.t # "num" \/ skip.t # "num" \/ limit.n <= 0
    IN  IF Rejects(env, <<>>) \/ badStage
        THEN Throw(<<"Failed to retrieve exercises: ">> \o RepositoryError, st, <<"aggregate">>)
        ELSE Ret(TextContent(JSONStringifyPretty(
                   Obj(<< <<"exercises", Views(exercises)>>,
                          <<"total", Num(Len(exercises))>>,
                          <<"limit", limit>>, <<"skip", skip>> >>))),
                 st, <<"aggregate">>)

\* getExerciseById(args)
getExerciseById(args, st, env) ==
  IF ~CanRead(args) THEN Throw(DestructureError("id", "args", args), st, <<>>)
  ELSE LET id == Get(args, "id") IN
    IF ~Truthy(id) THEN Throw(<<"Exercise ID is required">>, st, <<>>)
    ELSE IF Rejects(env, <<>>) THEN Throw(RepositoryError, st, <<"findOne">>)
    ELSE LET found == SelectSeq(st.docs, LAMBDA d : ExerciseMatch(d) /\ Lit(d.id) = id) IN
      IF found = <<>> THEN Throw(<<"Exercise not found">>, st, <<"findOne">>)
      ELSE Ret(TextContent(JSONStringifyPretty(
                 Obj(<< <<"exercise", ExerciseView(found[1])>> >>))),
               st, <<"findOne">>)

\* searchExercises(args = {})
searchExercises(args0, st, env) ==
  LET args == Default(args0, Obj(<<>>)) IN
  IF ~CanRead(args) THEN Throw(DestructureError("query", "args", args), st, <<>>)
  ELSE
    LET query == Get(args, "query")
        categories == Get(args, "categories")
        byCategory == categories.t = "arr" /\ Len(categories.m) > 0
        matched == SelectSeq(st.docs, LAMBDA d :
                     /\ ExerciseMatch(d)
                     /\ (byCategory => \E i \in 1..Len(categories.m) : HasCategory(d, Elems(categories)[i]))
                     /\ (Truthy(query) => query.t = "str" /\ Includes(d.title, query.s)))
        exercises == SortByPublishedDesc(matched)
    IN  IF Rejects(env, <<>>)
        THEN Throw(<<"Failed to search exercises: ">> \o RepositoryError, st, <<"aggregate">>)
        ELSE Ret(TextContent(JSONStringifyPretty(
                   Obj(<< <<"exercises", Views(exercises)>>,
                          <<"total", Num(Len(exercises))>>,
                          <<"searchQuery", args>> >>))),
                 st, <<"aggregate">>)

\* getAllExercisesResource()
getAllExercisesResource(st, env) ==
  IF Rejects(env, <<>>) THEN Throw(RepositoryError, st, <<"aggregate">>)
  ELSE LET exercises == SelectSeq(st.docs, ExerciseMatch) IN
    Ret(ResourceContent(<<"exercise://", "exercises">>,
          Obj(<< <<"exercises", Views(exercises)>>, <<"total", Num(Len(exercises))>> >>)),
        st, <<"aggregate">>)

\* distinct('categories', filter): the categories of the matching documents,
\* each once, in order of first appearance.
RECURSIVE Distinct(_, _)
Distinct(xs, seen) ==
  IF xs = <<>> THEN <<>>
  ELSE IF Head(xs) \in seen THEN Distinct(Tail(xs), seen)
  ELSE <<Head(xs)>> \o Distinct(Tail(xs), seen \cup {Head(xs)})

RECURSIVE Flatten(_)
Flatten(xss) == IF xss = <<>> THEN <<>> ELSE Head(xss) \o Flatten(Tail(xss))

DistinctCategories(docs) ==
  LET ds == SelectSeq(docs, ExerciseMatch)
  IN  Distinct(Flatten([i \in 1..Len(ds) |-> ds[i].cats]), {})

\* getCategoriesResource()
getCategoriesResource(st, env) ==
  IF Rejects(env, <<>>) THEN Throw(RepositoryError, st, <<"distinct">>)
  ELSE LET categories == DistinctCategories(st.docs) IN
    Ret(ResourceContent(<<"exercise://", "categories">>,
          Obj(<< <<"categories", Strs(categories)>>, <<"total", Num(Len(categories))>> >>)),
        st, <<"distinct">>)

\* getStatsResource(): an aggregate, then a distinct.
getStatsResource(st, env) ==
  IF Rejects(env, <<>>) THEN Throw(RepositoryError, st, <<"aggregate">>)
  ELSE IF Rejects(env, <<"aggregate">>) THEN Throw(RepositoryError, st, <<"aggregate", "distinct">>)
  ELSE
    Ret(ResourceContent(<<"exercise://", "stats">>,
          Obj(<< <<"totalExercises", Num(Len(SelectSeq(st.docs, ExerciseMatch)))>>,
                 <<"averageDuration", Num(0)>>,
                 <<"totalCategories", Num(Len(DistinctCategories(st.docs)))>>,
                 <<"lastUpdated", Lit(ToString(st.now))>> >>)),
        st, <<"aggregate", "distinct">>)

(***************************************************************************)
(* create_workout_program.  Titles are strings of one-character tokens.    *)
(***************************************************************************)
UpperCase == {"A", "B"}
LowerCase == {"a", "b"}
Digits == {"0", "1"}
WhiteSpace == {" "}
Alphabet == UpperCase \cup LowerCase \cup Digits \cup WhiteSpace \cup {"-", "!"}

toLowerCase(c) == IF c = "A" THEN "a" ELSE IF c = "B" THEN "b" ELSE c

\* replace(/\s+/g, '-') and replace(/-+/g, '-'): every maximal run of
\* characters of the class becomes one hyphen.
RECURSIVE ReplaceRuns(_, _, _)
ReplaceRuns(s, class, inRun) ==
  IF s = <<>> THEN <<>>
  ELSE IF Head(s) \in class
       THEN (IF inRun THEN <<>> ELSE <<"-">>) \o ReplaceRuns(Tail(s), class, TRUE)
       ELSE <<Head(s)>> \o ReplaceRuns(Tail(s), class, FALSE)

\* String.prototype.trim() takes no argument: it strips white space only.
RECURSIVE TrimStart(_)
TrimStart(s) == IF s # <<>> /\ Head(s) \in WhiteSpace THEN TrimStart(Tail(s)) ELSE s

RECURSIVE TrimEnd(_)
TrimEnd(s) ==
  IF s # <<>> /\ s[Len(s)] \in WhiteSpace THEN TrimEnd(SubSeq(s, 1, Len(s) - 1)) ELSE s

Trim(s) == TrimEnd(TrimStart(s))

\* generateSlug(title), title a string.
generateSlug(title) ==
  LET lower == [i \in 1..Len(title) |-> toLowerCase(title[i])]
      kept == SelectSeq(lower, LAMBDA c : c \in LowerCase \cup Digits \cup WhiteSpace \cup {"-"})
      hyphenated == ReplaceRuns(kept, WhiteSpace, FALSE)
      collapsed == ReplaceRuns(hyphenated, {"-"}, FALSE)
  IN  Trim(collapsed)

\* workout.slug || this.generateSlug(workout.title): a thrown TypeError when
\* the title is not a string.
SlugOf(item) ==
  LET slug == Get(item, "slug")
      title == Get(item, "title")
  IN  IF Truthy(slug) THEN [ok |-> TRUE, v |-> slug.s, msg |-> <<>>]
      ELSE IF title.t = "str" THEN [ok |-> TRUE, v |-> generateSlug(title.s), msg |-> <<>>]
      ELSE IF CanRead(title)
      THEN [ok |-> FALSE, v |-> <<>>, msg |-> <<"title.toLowerCase is not a function">>]
      ELSE [ok |-> FALSE, v |-> <<>>,
            msg |-> <<"Cannot read properties of ">> \o Interp(title) \o <<" (reading 'toLowerCase')">>]

\* The relational operators on a workout_index: undefined converts to NaN,
\* for which every comparison is false; null converts to 0.
IsNumeric(x) == x.t \in {"num", "null"}
ToNumber(x) == IF x.t = "num" THEN x.n ELSE 0
JsGE(x, n) == IsNumeric(x) /\ ToNumber(x) >= n
JsLT(x, n) == IsNumeric(x) /\ ToNumber(x) < n

\* uuidv4(): a fresh identifier.
Uuid(n) == "u" \o ToString(n)

\* item.medium || item.easy || item.hard || 0, summed over all items.
ItemDuration(item) ==
  ToNumber(OrElse(OrElse(OrElse(Get(item, "medium"), Get(item, "easy")), Get(item, "hard")), Num(0)))

RECURSIVE SumItems(_)
SumItems(items) ==
  IF items = <<>> THEN 0 ELSE ItemDuration(Head(items)) + SumItems(Tail(items))

RECURSIVE SumSections(_)
SumSections(sections) ==
  IF sections = <<>> THEN 0
  ELSE (IF Get(Head(sections), "items").t = "arr" THEN SumItems(Elems(Get(Head(sections), "items"))) ELSE 0)
       + SumSections(Tail(sections))

\* workoutDoc.content_metadata.total_duration after the defaulting.
TotalDuration(workout) ==
  LET given == Get(Get(workout, "content_metadata"), "total_duration")
      sections == Get(workout, "sections")
  IN  IF Truthy(given) THEN ToNumber(given)
      ELSE IF sections.t = "arr" THEN SumSections(Elems(sections)) ELSE 0

Categories(item) ==
  LET cs == Get(item, "categories")
  IN  IF cs.t = "arr" THEN [i \in 1..Len(cs.m) |-> Elems(cs)[i].s[1]] ELSE <<>>

CreateFailed(msg) == <<"Failed to create workout program: ">> \o msg

\* A faulty step 1: when a create call fails, the workouts saved so far are
\* removed again.
RECURSIVE CreateWorkouts_rollback(_, _, _, _, _, _)
CreateWorkouts_rollback(workouts, i, created, st, ops, env) ==
  IF i > Len(workouts) THEN [k |-> "ret", created |-> created, msg |-> <<>>, st |-> st, ops |-> ops]
  ELSE
    LET workout == workouts[i]
        slug == SlugOf(workout)
    IN  IF ~CanRead(workout)
        THEN [k |-> "throw", created |-> created, st |-> st, ops |-> ops,
              msg |-> <<"Cannot read properties of ">> \o Interp(workout) \o <<" (reading 'title')">>]
        ELSE IF ~slug.ok
        THEN [k |-> "throw", created |-> created, msg |-> slug.msg, st |-> st, ops |-> ops]
        ELSE IF Rejects(env, ops)
        THEN [k |-> "throw", created |-> <<>>, msg |-> RepositoryError,
              st |-> [st EXCEPT !.docs = SubSeq(@, 1, Len(@) - Len(created))],
              ops |-> Append(ops, "create")]
        ELSE
          LET title == Get(workout, "title")
              doc == [id |-> Uuid(st.nextId), item_type |-> "workouts", meta |-> TRUE,
                      published_at |-> Num(st.now), cats |-> Categories(workout),
                      title |-> IF title.t = "str" THEN title.s ELSE <<>>,
                      slug |-> slug.v, duration |-> TotalDuration(workout),
                      sections |-> <<>>]
              st2 == [st EXCEPT !.docs = Append(@, doc), !.nextId = @ + 1]
          IN  CreateWorkouts_rollback(workouts, i + 1, Append(created, doc), st2,
                                      Append(ops, "create"), env)

\* Step 1 of createWorkoutProgram: the loop over workouts from index i on.
\* created holds the documents saved so far.
RECURSIVE CreateWorkouts(_, _, _, _, _, _)
CreateWorkouts(workouts, i, created, st, ops, env) ==
  IF i > Len(workouts) THEN [k |-> "ret", created |-> created, msg |-> <<>>, st |-> st, ops |-> ops]
  ELSE
    LET workout == workouts[i]
        slug == SlugOf(workout)
    IN  IF ~CanRead(workout)
        THEN [k |-> "throw", created |-> created, st |-> st, ops |-> ops,
              msg |-> <<"Cannot read properties of ">> \o Interp(workout) \o <<" (reading 'title')">>]
        ELSE IF ~slug.ok
        THEN [k |-> "throw", created |-> created, msg |-> slug.msg, st |-> st, ops |-> ops]
        ELSE IF Rejects(env, ops)
        THEN [k |-> "throw", created |-> created, msg |-> RepositoryError, st |-> st,
              ops |-> Append(ops, "create")]
        ELSE
          LET title == Get(workout, "title")
              doc == [id |-> Uuid(st.nextId), item_type |-> "workouts", meta |-> TRUE,
                      published_at |-> Num(st.now), cats |-> Categories(workout),
                      title |-> IF title.t = "str" THEN title.s ELSE <<>>,
                      slug |-> slug.v, duration |-> TotalDuration(workout),
                      sections |-> <<>>]
              st2 == [st EXCEPT !.docs = Append(@, doc), !.nextId = @ + 1]
          IN  CreateWorkouts(workouts, i + 1, Append(created, doc), st2,
                             Append(ops, "create"), env)

\* createdWorkouts[scheduleItem.workout_index]: undefined unless the index is
\* an integer in range.
Resolves(item, created) ==
  LET idx == Get(item, "workout_index")
  IN  idx.t = "num" /\ idx.n >= 0 /\ idx.n < Len(created)

\* A faulty mapping: every section refers to the first workout created.
Section_first(item, created) ==
  LET workout == created[1]
  IN  [day |-> Get(item, "day"), duration |-> workout.duration, workout |-> workout.id]

Section(item, created) ==
  LET workout == created[Get(item, "workout_index").n + 1]
  IN  [day |-> Get(item, "day"), duration |-> workout.duration, workout |-> workout.id]

SectionView(sec) ==
  Obj(<< <<"day", sec.day>>, <<"duration", Num(sec.duration)>>, <<"workout", Lit(sec.workout)>> >>)

\* Step 2 of createWorkoutProgram: the program document.
CreateProgram(program, workouts, schedule, w, env) ==
  LET slug == SlugOf(program)
      sections == [i \in 1..Len(schedule) |-> Section(schedule[i], w.created)]
      title == Get(program, "title")
      doc == [id |-> Uuid(w.st.nextId), item_type |-> "workout-program", meta |-> TRUE,
              published_at |-> Num(w.st.now), cats |-> Categories(program),
              title |-> IF title.t = "str" THEN title.s ELSE <<>>,
              slug |-> slug.v, duration |-> 0, sections |-> sections]
      st2 == [w.st EXCEPT !.docs = Append(@, doc), !.nextId = @ + 1]
  IN  IF ~slug.ok THEN Throw(CreateFailed(slug.msg), w.st, w.ops)
      ELSE IF \E i \in 1..Len(schedule) : ~Resolves(schedule[i], w.created)
      THEN Throw(CreateFailed(<<"Cannot read properties of undefined (reading 'content_metadata')">>),
                 w.st, w.ops)
      ELSE IF Rejects(env, w.ops)
      THEN Throw(CreateFailed(RepositoryError), w.st, Append(w.ops, "create"))
      ELSE Ret(TextContent(JSONStringifyPretty(
                 Obj(<< <<"success", Bool(TRUE)>>,
                        <<"program", Obj(<< <<"id", Lit(doc.id)>>, <<"title", title>>,
                                            <<"slug", Str(doc.slug)>>,
                                            <<"created_at", doc.published_at>> >>)>>,
                        <<"workouts", Arr([i \in 1..Len(w.created) |->
                             Obj(<< <<"id", Lit(w.created[i].id)>>,
                                    <<"title", Get(workouts[i], "title")>>,
                                    <<"slug", Str(w.created[i].slug)>>,
                                    <<"created_at", w.created[i].published_at>> >>)])>>,
                        <<"schedule", Arr([i \in 1..Len(sections) |-> SectionView(sections[i])])>>,
                        <<"message", Str(<<"Successfully created workout program '">>
                                         \o Interp(title) \o <<"' with ">>
                                         \o <<ToString(Len(w.created))>> \o <<" workouts">>)>> >>))),
               st2, Append(w.ops, "create"))

\* A faulty createWorkoutProgram: the references of the schedule are not
\* validated before the workouts are created.
createWorkoutProgram_unchecked(args, st, env) ==
  IF ~CanRead(args) THEN Throw(DestructureError("program", "args", args), st, <<>>)
  ELSE
    LET program == Get(args, "program")
        workouts == Get(args, "workouts")
        schedule == Get(args, "program_schedule")
    IN  IF ~Truthy(program) \/ ~Truthy(workouts) \/ ~Truthy(schedule)
        THEN Throw(<<"Missing required fields: program, workouts, and program_schedule are required">>,
                   st, <<>>)
        ELSE IF workouts.t # "arr" \/ Len(workouts.m) = 0
        THEN Throw(<<"At least one workout is required">>, st, <<>>)
        ELSE IF schedule.t # "arr" \/ Len(schedule.m) = 0
        THEN Throw(<<"Program schedule is required">>, st, <<>>)
        ELSE
          LET Step2(w) ==
                IF w.k = "throw" THEN Throw(CreateFailed(w.msg), w.st, w.ops)
                ELSE CreateProgram(program, Elems(workouts), Elems(schedule), w, env)
          IN  Step2(CreateWorkouts(Elems(workouts), 1, <<>>, st, <<>>, env))

\* createWorkoutProgram(args)
createWorkoutProgram(args, st, env) ==
  IF ~CanRead(args) THEN Throw(DestructureError("program", "args", args), st, <<>>)
  ELSE
    LET program == Get(args, "program")
        workouts == Get(args, "workouts")
        schedule == Get(args, "program_schedule")
    IN  IF ~Truthy(program) \/ ~Truthy(workouts) \/ ~Truthy(schedule)
        THEN Throw(<<"Missing required fields: program, workouts, and program_schedule are required">>,
                   st, <<>>)
        ELSE IF workouts.t # "arr" \/ Len(workouts.m) = 0
        THEN Throw(<<"At least one workout is required">>, st, <<>>)
        ELSE IF schedule.t # "arr" \/ Len(schedule.m) = 0
        THEN Throw(<<"Program schedule is required">>, st, <<>>)
        ELSE IF \E i \in 1..Len(schedule.m) : ~CanRead(Elems(schedule)[i])
        THEN Throw(<<"Cannot read properties of null (reading 'workout_index')">>, st, <<>>)
        ELSE IF \E i \in 1..Len(schedule.m) :
                  \/ JsGE(Get(Elems(schedule)[i], "workout_index"), Len(workouts.m))
                  \/ JsLT(Get(Elems(schedule)[i], "workout_index"), 0)
        THEN LET bad == CHOOSE i \in 1..Len(schedule.m) :
                          /\ \/ JsGE(Get(Elems(schedule)[i], "workout_index"), Len(workouts.m))
                             \/ JsLT(Get(Elems(schedule)[i], "workout_index"), 0)
                          /\ \A j \in 1..(i - 1) :
                               /\ ~JsGE(Get(Elems(schedule)[j], "workout_index"), Len(workouts.m))
                               /\ ~JsLT(Get(Elems(schedule)[j], "workout_index"), 0)
             IN Throw(<<"Invalid workout_index ">> \o Interp(Get(Elems(schedule)[bad], "workout_index"))
                      \o <<" in program_schedule. Must be between 0 and ">>
                      \o <<ToString(Len(workouts.m) - 1)>>, st, <<>>)
        ELSE
          LET Step2(w) ==
                IF w.k = "throw" THEN Throw(CreateFailed(w.msg), w.st, w.ops)
                ELSE CreateProgram(program, Elems(workouts), Elems(schedule), w, env)
          IN  Step2(CreateWorkouts(Elems(workouts), 1, <<>>, st, <<>>, env))

(***************************************************************************)
(* The dispatchers handleToolCall and handleResourceRead.                  *)
(***************************************************************************)
ToolError(msg) ==
  Obj(<< <<"content", Arr(<< Obj(<< <<"type", Lit("text")>>,
                                    <<"text", Str(<<"Error: ">> \o msg)>> >>) >>)>>,
         <<"isError", Bool(TRUE)>> >>)

ResourceError(uri, msg) ==
  Obj(<< <<"contents", Arr(<< Obj(<< <<"uri", uri>>,
                                     <<"mimeType", Lit("text/plain")>>,
                                     <<"text", Str(<<"Error: ">> \o msg)>> >>) >>)>> >>)

\* A faulty switch: create_workout_program is bound in both variants, the
\* one that does not list it included.
RunTool_bindsCreate(name, args, st, env, variant) ==
  IF name = Lit("get_exercises") THEN getExercises(args, st, env)
  ELSE IF name = Lit("get_exercise_by_id") THEN getExerciseById(args, st, env)
  ELSE IF name = Lit("search_exercises") THEN searchExercises(args, st, env)
  ELSE IF name = Lit("create_workout_program") THEN createWorkoutProgram(args, st, env)
  ELSE Throw(<<"Unknown tool: ">> \o Interp(name), st, <<>>)

\* The switch of handleToolCall: the tool bound to a name, run on args.
RunTool(name, args, st, env, variant) ==
  IF name = Lit("get_exercises") THEN getExercises(args, st, env)
  ELSE IF name = Lit("get_exercise_by_id") THEN getExerciseById(args, st, env)
  ELSE IF name = Lit("search_exercises") THEN searchExercises(args, st, env)
  ELSE IF name = Lit("create_workout_program") /\ variant = 1
  THEN createWorkoutProgram(args, st, env)
  ELSE Throw(<<"Unknown tool: ">> \o Interp(name), st, <<>>)

\* The switch of handleResourceRead.
RunResource(uri, st, env) ==
  IF uri = Str(ExercisesUri) THEN getAllExercisesResource(st, env)
  ELSE IF uri = Str(CategoriesUri) THEN getCategoriesResource(st, env)
  ELSE IF uri = Str(StatsUri) THEN getStatsResource(st, env)
  ELSE Throw(<<"Unknown resource: ">> \o Interp(uri), st, <<>>)

\* try { await ensureDbConnection(); switch ... } catch (error) { ... }:
\* whatever the body throws is caught; caught holds its message, which the
\* catch block renders.
TryCatch(connected, run, entry) ==
  IF connected.k = "throw"
  THEN [Ret(Undefined, connected.st, entry \o connected.ops)
          EXCEPT !.caught = connected.msg]
  ELSE IF run.k = "throw"
  THEN [Ret(Undefined, run.st, entry \o connected.ops \o run.ops)
          EXCEPT !.caught = run.msg]
  ELSE Ret(run.v, run.st, entry \o connected.ops \o run.ops)

\* A faulty handleToolCall: the connection is awaited before the try, so a
\* connection failure escapes the dispatcher.
handleToolCall_connectFirst(params, st, env, variant) ==
  IF ~CanRead(params)
  THEN Throw(DestructureError("name", "params", params), st, <<"handleToolCall">>)
  ELSE
    LET name == Get(params, "name")
        args == Get(params, "arguments")
        connected == ensureDbConnection(st, env)
        Rendered(r) == IF r.caught = <<>> THEN r ELSE [r EXCEPT !.v = ToolError(r.caught)]
    IN  IF connected.k = "throw"
        THEN Throw(connected.msg, connected.st, <<"handleToolCall">> \o connected.ops)
        ELSE Rendered(TryCatch(connected, RunTool(name, args, connected.st, env, variant),
                               <<"handleToolCall">>))

\* handleToolCall(params): the destructuring of params precedes the try.
handleToolCall(params, st, env, variant) ==
  IF ~CanRead(params)
  THEN Throw(DestructureError("name", "params", params), st, <<"handleToolCall">>)
  ELSE
    LET name == Get(params, "name")
        args == Get(params, "arguments")
        connected == ensureDbConnection(st, env)
        Rendered(r) == IF r.caught = <<>> THEN r ELSE [r EXCEPT !.v = ToolError(r.caught)]
    IN  Rendered(TryCatch(connected, RunTool(name, args, connected.st, env, variant),
                          <<"handleToolCall">>))

\* handleResourceRead(params)
handleResourceRead(params, st, env) ==
  IF ~CanRead(params)
  THEN Throw(DestructureError("uri", "params", params), st, <<"handleResourceRead">>)
  ELSE
    LET uri == Get(params, "uri")
        connected == ensureDbConnection(st, env)
        Rendered(r) == IF r.caught = <<>> THEN r
                       ELSE [r EXCEPT !.v = ResourceError(uri, r.caught)]
    IN  Rendered(TryCatch(connected, RunResource(uri, connected.st, env),
                          <<"handleResourceRead">>))

(***************************************************************************)
(* The Lambda entry points.                                                *)
(***************************************************************************)
\* event.headers?.lower || event.headers?.Upper
HeaderOf(event, lower, upper) ==
  IF CanRead(event.headers)
  THEN OrElse(Get(event.headers, lower), Get(event.headers, upper))
  ELSE Undefined

EventStream == <<"text/event-stream">>
AppJson == <<"application/json">>

\* event.headers?.accept || event.headers?.Accept || ''
AcceptOf(event) == OrElse(HeaderOf(event, "accept", "Accept"), Str(<<>>))
SupportsSSE(event) == Includes(AcceptOf(event).s, EventStream)
SupportsJSON(event) == Includes(AcceptOf(event).s, AppJson)

ProtocolMethods ==
  << <<"initialize">>, <<"tools/list">>, <<"resources/list">>, <<"tools/call">>,
     <<"resources/read">> >>

\* A faulty preference: no method prefers JSON.
preferJSON_never(method) == FALSE

\* ['initialize', ...].includes(mcpMessage.method)
preferJSON(method) ==
  \E i \in 1..Len(ProtocolMethods) : Str(ProtocolMethods[i]) = method

\* A faulty default case: the error does not echo the request id.
MethodNotFound_nullId(msg) ==
  ErrorResponse(Null, -32601, "Method not found",
                <<"Unknown method: ">> \o Interp(Get(msg, "method")))

\* The default case of the switch of mcpPost.
MethodNotFound(msg) ==
  ErrorResponse(Get(msg, "id"), -32601, "Method not found",
                <<"Unknown method: ">> \o Interp(Get(msg, "method")))

\* The switch over mcpMessage.method: the JSON-RPC response, or the error
\* that escapes it.
Dispatch(msg, st, env, variant) ==
  LET method == Get(msg, "method")
      id == Get(msg, "id")
      params == Get(msg, "params")
      \* case 'tools/call': try { ... } catch (toolError) { ... }
      ToolCallResponse(r) ==
        IF r.k = "throw"
        THEN Ret(ErrorResponse(id, -32603, "Internal error", r.msg), r.st, r.ops)
        ELSE [r EXCEPT !.v = ResultResponse(id, r.v)]
      \* case 'resources/read': nothing is caught here.
      ResourceReadResponse(r) ==
        IF r.k = "throw" THEN r ELSE [r EXCEPT !.v = ResultResponse(id, r.v)]
  IN  IF method = Lit("initialize")
      THEN Ret(ResultResponse(id, InitializeResult), st, <<>>)
      ELSE IF method = Lit("tools/list")
      THEN Ret(ResultResponse(id, Obj(<< <<"tools", Arr(ToolTable(variant))>> >>)), st, <<>>)
      ELSE IF method = Lit("resources/list")
      THEN Ret(ResultResponse(id, Obj(<< <<"resources", Arr(ResourceTable)>> >>)), st, <<>>)
      ELSE IF method = Lit("tools/call")
      THEN ToolCallResponse(handleToolCall(params, st, env, variant))
      ELSE IF method = Lit("resources/read")
      THEN ResourceReadResponse(handleResourceRead(params, st, env))
      ELSE Ret(MethodNotFound(msg), st, <<>>)

\* What an entry point yields: the HTTP response, the return statement that
\* produced it, the state left, the operations run and the error caught by
\* a dispatcher.
Outcome(resp, branch, st, ops, caught) ==
  [resp |-> resp, branch |-> branch, st |-> st, ops |-> ops, caught |-> caught]

InternalError(msg, st, ops) ==
  Outcome(HttpResponse(500, ContentTypeJson \o << <<"Access-Control-Allow-Origin", Lit("*")>> >>,
                       JSONStringify(InternalErrorBody(msg))),
          "error500", st, ops, <<>>)

\* The framing of a dispatched response.
Negotiate(event, msg, r) ==
  IF SupportsJSON(event) /\ (preferJSON(Get(msg, "method")) \/ ~SupportsSSE(event))
  THEN Outcome(HttpResponse(200, ContentTypeJson \o CorsHeaders, JSONStringify(r.v)),
               "json", r.st, r.ops, r.caught)
  ELSE IF SupportsSSE(event)
  THEN Outcome(StreamResponse(SseHeaders(SessionIdOf(r.st.now)),
                              formatSSEMessage(r.v, Lit("response"), Get(msg, "id"))),
               "sse", r.st, r.ops, r.caught)
  ELSE Outcome(HttpResponse(200, ContentTypeJson \o CorsHeaders, JSONStringify(r.v)),
               "fallback", r.st, r.ops, r.caught)

\* A faulty rejection: the 403 body is wrapped in a JSON-RPC envelope.
Forbidden_envelope(st) ==
  Outcome(HttpResponse(403, ContentTypeJson,
                       JSONStringify(ErrorResponse(Null, -32603, "Invalid origin", <<>>))),
          "origin403", st, <<>>, <<>>)

\* The rejection of a request whose origin is not valid.
Forbidden(st) ==
  Outcome(HttpResponse(403, ContentTypeJson, RawError("Invalid origin")),
          "origin403", st, <<>>, <<>>)

\* A faulty test for a response-only message: mcpMessage.result ||
\* mcpMessage.error, which a null result fails.
IsResponseOnly_truthy(msg) == Truthy(Get(msg, "result")) \/ Truthy(Get(msg, "error"))

\* mcpMessage.result !== undefined || mcpMessage.error !== undefined
IsResponseOnly(msg) == Get(msg, "result") # Undefined \/ Get(msg, "error") # Undefined

EmptyObjectText == <<"{", "}">>
SyntaxError == <<"Unexpected token in JSON">>

\* A faulty mcpPost: the request is dispatched before the Accept header is
\* checked, so a request answered 400 has run its handler.
mcpPost_dispatchFirst(event, st, env, variant) ==
  LET origin == HeaderOf(event, "origin", "Origin")
      parsed == JSONParse(OrElse(event.body, Str(EmptyObjectText)).s)
      msg == parsed.v
      Answer(r) == IF r.k = "throw" THEN InternalError(r.msg, r.st, r.ops)
                   ELSE Negotiate(event, msg, r)
      Reject(r) == Outcome(HttpResponse(400, ContentTypeJson,
                                RawError("Must accept application/json or text/event-stream")),
                           "accept400", r.st, r.ops, <<>>)
  IN  IF ~validateOrigin(origin)
      THEN Forbidden(st)
      ELSE IF ~parsed.ok THEN InternalError(SyntaxError, st, <<>>)
      ELSE IF ~CanRead(msg)
      THEN InternalError(<<"Cannot read properties of ">> \o Interp(msg) \o <<" (reading 'method')">>,
                         st, <<>>)
      ELSE IF Truthy(Get(msg, "method"))
      THEN IF ~SupportsSSE(event) /\ ~SupportsJSON(event)
           THEN Reject(Dispatch(msg, st, env, variant))
           ELSE Answer(Dispatch(msg, st, env, variant))
      ELSE IF ~SupportsSSE(event) /\ ~SupportsJSON(event)
      THEN Outcome(HttpResponse(400, ContentTypeJson,
                                RawError("Must accept application/json or text/event-stream")),
                   "accept400", st, <<>>, <<>>)
      ELSE IF IsResponseOnly(msg)
      THEN Outcome(HttpResponse(202, CorsHeaders, <<>>), "accepted202", st, <<>>, <<>>)
      ELSE Outcome(HttpResponse(400, ContentTypeJson, RawError("Invalid JSON-RPC message")),
                   "invalid400", st, <<>>, <<>>)

\* exports.mcpPost
mcpPost(event, st, env, variant) ==
  LET origin == HeaderOf(event, "origin", "Origin")
      parsed == JSONParse(OrElse(event.body, Str(EmptyObjectText)).s)
      msg == parsed.v
      \* The outer catch answers what escapes the switch.
      Answer(r) == IF r.k = "throw" THEN InternalError(r.msg, r.st, r.ops)
                   ELSE Negotiate(event, msg, r)
  IN  IF ~validateOrigin(origin)
      THEN Forbidden(st)
      ELSE IF ~parsed.ok THEN InternalError(SyntaxError, st, <<>>)
      ELSE IF ~SupportsSSE(event) /\ ~SupportsJSON(event)
      THEN Outcome(HttpResponse(400, ContentTypeJson,
                                RawError("Must accept application/json or text/event-stream")),
                   "accept400", st, <<>>, <<>>)
      ELSE IF ~CanRead(msg)
      THEN InternalError(<<"Cannot read properties of ">> \o Interp(msg) \o <<" (reading 'method')">>,
                         st, <<>>)
      ELSE IF Truthy(Get(msg, "method"))
      THEN Answer(Dispatch(msg, st, env, variant))
      ELSE IF IsResponseOnly(msg)
      THEN Outcome(HttpResponse(202, CorsHeaders, <<>>), "accepted202", st, <<>>, <<>>)
      ELSE Outcome(HttpResponse(400, ContentTypeJson, RawError("Invalid JSON-RPC message")),
                   "invalid400", st, <<>>, <<>>)

\* A faulty mcpGet: the Accept test of mcpPost is used, so a GET that accepts
\* only application/json is given a stream.
mcpGet_anyAccept(event, st) ==
  LET origin == HeaderOf(event, "origin", "Origin")
      sessionId == SessionIdOf(st.now)
  IN  IF ~validateOrigin(origin)
      THEN Forbidden(st)
      ELSE IF ~SupportsSSE(event) /\ ~SupportsJSON(event)
      THEN Outcome(HttpResponse(405, ContentTypeJson \o << <<"Allow", Lit("POST")>> >>,
                                RawError("Method Not Allowed - must accept text/event-stream")),
                   "get405", st, <<>>, <<>>)
      ELSE Outcome(StreamResponse(SseHeaders(sessionId),
                     formatSSEMessage(Obj(<< <<"type", Lit("connected")>>,
                                             <<"sessionId", sessionId>> >>),
                                      Lit("connected"), Undefined)),
                   "sse", st, <<>>, <<>>)

\* exports.mcpGet
mcpGet(event, st) ==
  LET origin == HeaderOf(event, "origin", "Origin")
      sessionId == SessionIdOf(st.now)
  IN  IF ~validateOrigin(origin)
      THEN Forbidden(st)
      ELSE IF ~Includes(AcceptOf(event).s, EventStream)
      THEN Outcome(HttpResponse(405, ContentTypeJson \o << <<"Allow", Lit("POST")>> >>,
                                RawError("Method Not Allowed - must accept text/event-stream")),
                   "get405", st, <<>>, <<>>)
      ELSE Outcome(StreamResponse(SseHeaders(sessionId),
                     formatSSEMessage(Obj(<< <<"type", Lit("connected")>>,
                                             <<"sessionId", sessionId>> >>),
                                      Lit("connected"), Undefined)),
                   "sse", st, <<>>, <<>>)

\* exports.mcpOptions
mcpOptions(event, st) ==
  Outcome(HttpResponse(200, CorsHeaders, <<>>), "options", st, <<>>, <<>>)

(***************************************************************************)
(* The bearer credential extractor validateJWTToken.  Its code is not part *)
(* of src/ (src/mcp-server.js holds its tests only): it is modelled from   *)
(* section 4.2 of the specification.  A compact token is                   *)
(* base64url(header) "." base64url(payload) "." signature.                 *)
(***************************************************************************)
\* jwt.sign(payload, secret): the base64url of the header and of the JSON
\* text of the payload, token by token, and the signature.
jwtSign(payload, signature) ==
  LET Base64Url(text) == [i \in 1..Len(text) |-> "b64:" \o text[i]]
  IN  Base64Url(JSONStringify(Obj(<< <<"alg", Lit("HS256")>> >>))) \o <<".">>
      \o Base64Url(JSONStringify(payload)) \o <<".", signature>>

\* jwt.decode(token): the payload, read without looking at the signature;
\* null when the token is not three segments or its payload is not the
\* base64url of the JSON text of an object.
jwtDecode(token) ==
  LET dots == {i \in 1..Len(token) : token[i] = "."}
      first == CHOOSE i \in dots : \A j \in dots : i <= j
      last == CHOOSE i \in dots : \A j \in dots : j <= i
      segment == SubSeq(token, first + 1, last - 1)
      texts == {"{", "}", "[", "]", ":", ",", Quote, "null", "user", "_id", "userId", "sub",
                "someOtherField", "u1", "u2", "u3", "u4"}
      Plain(tok) == {t \in texts : "b64:" \o t = tok}
      Payload(parsed) == IF parsed.ok /\ parsed.v.t = "obj" THEN parsed.v ELSE Null
  IN  IF Cardinality(dots) # 2 THEN Null
      ELSE IF \E i \in 1..Len(segment) : Plain(segment[i]) = {} THEN Null
      ELSE Payload(JSONParse([i \in 1..Len(segment) |-> CHOOSE t \in Plain(segment[i]) : TRUE]))

\* A faulty extractor: the signature is verified, and a token that was not
\* signed with the secret is refused.
validateJWTToken_verified(authorization) ==
  LET Fail(msg) == [k |-> "throw", v |-> Undefined, msg |-> msg]
      Context(claims) ==
        LET userId == OrElse(OrElse(OrElse(Get(Get(claims, "user"), "_id"), Get(claims, "_id")),
                                    Get(claims, "userId")), Get(claims, "sub"))
        IN  IF ~Truthy(claims) \/ authorization.s[Len(authorization.s)] # "secret"
            THEN Fail(<<"Invalid JWT token format">>)
            ELSE IF ~Truthy(userId) THEN Fail(<<"User ID not found">>)
            ELSE [k |-> "ret", msg |-> <<>>,
                  v |-> Obj(<< <<"userId", userId>>, <<"claims", claims>> >>)]
  IN  IF authorization = Undefined THEN Fail(<<"Authorization header is required">>)
      ELSE IF authorization.t # "str" \/ authorization.s = <<>>
                \/ Head(authorization.s) # "Bearer "
      THEN Fail(<<"Invalid authorization header format. Expected: Bearer <token>">>)
      ELSE Context(jwtDecode(Tail(authorization.s)))

\* validateJWTToken(authorization): the user context {userId, claims}, or
\* the message of the error thrown.  The specification gives no wording for
\* the format error.
validateJWTToken(authorization) ==
  LET Fail(msg) == [k |-> "throw", v |-> Undefined, msg |-> msg]
      Context(claims) ==
        LET userId == OrElse(OrElse(OrElse(Get(Get(claims, "user"), "_id"), Get(claims, "_id")),
                                    Get(claims, "userId")), Get(claims, "sub"))
        IN  IF ~Truthy(claims) THEN Fail(<<"Invalid JWT token format">>)
            ELSE IF ~Truthy(userId) THEN Fail(<<"User ID not found">>)
            ELSE [k |-> "ret", msg |-> <<>>,
                  v |-> Obj(<< <<"userId", userId>>, <<"claims", claims>> >>)]
  IN  IF authorization = Undefined THEN Fail(<<"Authorization header is required">>)
      ELSE IF authorization.t # "str" \/ authorization.s = <<>>
                \/ Head(authorization.s) # "Bearer "
      THEN Fail(<<"Invalid authorization header format. Expected: Bearer <token>">>)
      ELSE Context(jwtDecode(Tail(authorization.s)))

(***************************************************************************)
(* The requests the environment sends.                                     *)
(***************************************************************************)
Localhost == <<"http://", "localhost", ":3001">>
Loopback == <<"http://", "127.0.0.1", ":8080">>
ClaudeAi == <<"https://", "claude.ai">>
Evil == <<"https://", "evil.example">>
EvilSuffix == <<"https://", "claude.ai", ".evil.example">>

Origins == {Undefined, Str(<<>>), Str(Localhost), Str(Loopback), Str(ClaudeAi), Str(Evil),
            Str(EvilSuffix)}

Accepts == {Undefined, Str(AppJson), Str(EventStream),
            Str(EventStream \o <<", ">> \o AppJson), Str(<<"text/html">>)}

Member(name, x) == IF x = Undefined THEN <<>> ELSE << <<name, x>> >>

Headers(origin, accept, capitalised) ==
  Obj(Member(IF capitalised THEN "Origin" ELSE "origin", origin)
      \o Member(IF capitalised THEN "Accept" ELSE "accept", accept))

\* The Authorization headers of the environment: tokens signed over payloads
\* with and without each of the four claims, headers of another scheme and
\* tokens that cannot be decoded.
AuthHeaders ==
  LET Payloads ==
        {Obj(Member("user", user) \o Member("_id", id) \o Member("userId", userId)
             \o Member("sub", sub)) :
           user \in {Undefined, Null, Obj(<<>>), Obj(<< <<"_id", Lit("u1")>> >>)},
           id \in {Undefined, Lit("u2")},
           userId \in {Undefined, Str(<<>>), Lit("u3")},
           sub \in {Undefined, Lit("u4")}}
        \cup {Obj(<< <<"someOtherField", Lit("u1")>> >>)}
  IN  {Str(<<"Bearer ">> \o jwtSign(p, sig)) : p \in Payloads, sig \in {"secret", "forged"}}
      \cup {Undefined, Str(<<>>), Str(<<"Token ", "abc">>), Str(<<"InvalidToken">>),
            Str(<<"Bearer ", "abc">>), Str(<<"Bearer ", "a", ".", "!", ".", "c">>),
            Str(<<"Bearer ">> \o jwtSign(Lit("u1"), "secret")),
            Str(<<"Token ">> \o jwtSign(Obj(<< <<"sub", Lit("u4")>> >>), "secret"))}

HeaderSets ==
  {Headers(o, a, FALSE) : o \in Origins, a \in Accepts}
  \cup {Headers(o, a, TRUE) : o \in {Str(Localhost), Str(Evil)}, a \in {Str(AppJson), Str(EventStream)}}
  \cup {Null}
  \cup {Obj(<< <<"origin", Str(<<>>)>>, <<"Origin", Str(<<>>)>>, <<"accept", Str(a)>> >>) :
          a \in {AppJson, EventStream}}
  \cup {Obj(<< <<"accept", Str(a)>>, <<"authorization", h>> >>) :
          a \in {AppJson, EventStream},
          h \in {Str(<<"Token ", "abc">>)}
                \cup {x \in AuthHeaders :
                        Get(validateJWTToken(x).v, "claims") = Obj(<< <<"sub", Lit("u4")>> >>)}}

Ids == {Undefined, Null, Num(0), Num(1), Lit("a")}

Message(id, method, params) ==
  Obj(<< <<"jsonrpc", Lit("2.0")>>, <<"id", id>>, <<"method", method>>, <<"params", params>> >>)

PlainMethods ==
  {Lit("initialize"), Lit("tools/list"), Lit("resources/list"), Lit("unknown/method"),
   Lit("notifications/initialized")}

ToolCall(name, args) == Obj(<< <<"name", name>>, <<"arguments", args>> >>)

Workout(title) == Obj(<< <<"title", Str(title)>>, <<"creator", Lit("u")>> >>)
Program(title) == Obj(<< <<"title", Str(title)>>, <<"creator", Lit("u")>> >>)
Slot(day, index) == Obj(<< <<"day", Num(day)>>, <<"workout_index", index>> >>)

ProgramArgs(program, workouts, schedule) ==
  Obj(<< <<"program", program>>, <<"workouts", workouts>>, <<"program_schedule", schedule>> >>)

CreateArgs ==
  { ProgramArgs(Program(<<"A", " ", "b">>), Arr(<< Workout(<<"-", "B", "!">>) >>),
                Arr(<< Slot(1, Num(0)), Slot(2, Num(0)) >>)),
    ProgramArgs(Program(<<"A", " ", "b">>), Arr(<< Workout(<<"-", "B", "!">>) >>),
                Arr(<< Slot(1, Num(5)) >>)),
    ProgramArgs(Program(<<"A", " ", "b">>), Arr(<< Workout(<<"-", "B", "!">>) >>),
                Arr(<< Slot(1, Undefined) >>)),
    ProgramArgs(Program(<<"A", " ", "b">>), Arr(<< Workout(<<"-", "B", "!">>) >>),
                Arr(<< Slot(1, Num(-1)) >>)),
    ProgramArgs(Program(<<"A", " ", "b">>), Arr(<< Workout(<<"-", "B", "!">>) >>), Arr(<<>>)),
    ProgramArgs(Program(<<"A">>), Arr(<< Workout(<<"B">>), Workout(<<"A", "1">>) >>),
                Arr(<< Slot(1, Num(1)), Slot(2, Num(0)), Slot(3, Num(1)) >>)),
    ProgramArgs(Program(<<"A">>), Arr(<< Workout(<<"B">>), Workout(<<"A", "1">>) >>),
                Arr(<< Slot(1, Num(0)), Slot(2, Num(5)) >>)),
    ProgramArgs(Program(<<"A">>), Arr(<<>>), Arr(<<>>)),
    ProgramArgs(Undefined, Arr(<<>>), Arr(<<>>)) }

ToolParams ==
  {Undefined, Obj(<<>>), ToolCall(Lit("no_such_tool"), Undefined)}
  \cup {ToolCall(Lit("get_exercises"), a) :
          a \in {Undefined, Obj(<< <<"category", Lit("c1")>> >>), Obj(<< <<"limit", Num(0)>> >>)}}
  \cup {ToolCall(Lit("get_exercise_by_id"), a) :
          a \in {Undefined, Obj(<<>>), Obj(<< <<"id", Lit("e1")>> >>), Obj(<< <<"id", Lit("w1")>> >>)}}
  \cup {ToolCall(Lit("search_exercises"), a) :
          a \in {Undefined, Obj(<< <<"query", Lit("Squat")>> >>)}}
  \cup {ToolCall(Lit("create_workout_program"), a) : a \in CreateArgs \cup {Undefined}}

ResourceParams ==
  {Undefined, Obj(<<>>)}
  \cup {Obj(<< <<"uri", Str(u)>> >>) :
          u \in {ExercisesUri, CategoriesUri, StatsUri, <<"exercise://", "nothing">>}}

DataIds == {Num(1)}

Messages ==
  {Message(id, m, Obj(<<>>)) : id \in Ids, m \in PlainMethods}
  \cup {Message(id, Lit("tools/call"), p) : id \in DataIds, p \in ToolParams}
  \cup {Message(id, Lit("resources/read"), p) : id \in DataIds, p \in ResourceParams}
  \cup {Message(Num(1), m, Undefined) : m \in {Num(5), Str(<<>>)}}
  \cup {Obj(<< <<"jsonrpc", Lit("2.0")>>, <<"id", Num(1)>>, <<"result", r>> >>) :
          r \in {Obj(<<>>), Null}}
  \cup {Obj(<< <<"jsonrpc", Lit("2.0")>>, <<"id", Num(1)>>,
               <<"error", Obj(<< <<"code", Num(-32603)>> >>)>> >>),
        Obj(<<>>), Null, Num(1), Arr(<<>>)}

Malformed == <<"{", Quote, "jsonrpc", Quote>>

Bodies ==
  {Str(JSONStringify(m)) : m \in Messages} \cup {Undefined, Str(<<>>), Str(Malformed)}

\* Every header set with a core of bodies, and every body with a core of
\* header sets.
CoreHeaders ==
  {Headers(Undefined, a, FALSE) : a \in Accepts \ {Undefined, Str(<<"text/html">>)}}
  \cup {Headers(Str(Evil), Str(AppJson), FALSE), Headers(Str(ClaudeAi), Str(EventStream), FALSE)}

CoreMessages ==
  {Message(id, Lit("tools/list"), Obj(<<>>)) : id \in {Num(1), Num(0)}}
  \cup {Message(Num(1), Lit("unknown/method"), Obj(<<>>)),
        Message(Num(1), Lit("resources/read"), Undefined),
        Message(Num(0), Lit("resources/read"), Obj(<< <<"uri", Str(CategoriesUri)>> >>)),
        Message(Undefined, Lit("tools/call"), ToolCall(Lit("no_such_tool"), Undefined)),
        Obj(<< <<"jsonrpc", Lit("2.0")>>, <<"id", Num(1)>>, <<"result", Obj(<<>>)>> >>),
        Obj(<<>>)}

CoreBodies == {Str(JSONStringify(m)) : m \in CoreMessages} \cup {Undefined, Str(Malformed)}

Events == [headers : HeaderSets, body : CoreBodies] \cup [headers : CoreHeaders, body : Bodies]

MaxFail == 3
\* When the connection fails no database call follows it.
Envs == [connectOk : {TRUE}, failAt : 0..MaxFail] \cup {[connectOk |-> FALSE, failAt |-> 0]}
NoFailure == [connectOk |-> TRUE, failAt |-> 0]

\* The message of a well-formed body (undefined otherwise).
MessageOf(event) ==
  LET parsed == JSONParse(OrElse(event.body, Str(EmptyObjectText)).s)
  IN  IF parsed.ok THEN parsed.v ELSE Undefined

MethodOf(event) == Get(MessageOf(event), "method")

TouchesRepository(event) == MethodOf(event) \in {Lit("tools/call"), Lit("resources/read")}

\* The invocations during which the database is made to fail.
FailureHeaders == {Headers(Undefined, Str(AppJson), FALSE)}

DataEvents ==
  {event \in [headers : FailureHeaders, body : Bodies] : TouchesRepository(event)}

(***************************************************************************)
(* The state machine: one action per invocation of an entry point.         *)
(***************************************************************************)
VARIABLES variant, readyState, docs, nextId, clock, req, resp, branch, ops, caught, issued

vars == <<variant, readyState, docs, nextId, clock, req, resp, branch, ops, caught, issued>>

\* An invocation writes to the repository only while fewer than MaxIssued
\* identifiers have been issued.
MaxIssued == 1

State == [readyState |-> readyState, docs |-> docs, nextId |-> nextId, now |-> clock]

NoEvent == [headers |-> Undefined, body |-> Undefined]

Init ==
  /\ variant \in Variants
  /\ readyState = 0
  /\ docs = InitialDocs
  /\ nextId = 1
  /\ clock = 0
  /\ req = [kind |-> "NONE", event |-> NoEvent, found |-> <<>>, ready |-> 0]
  /\ resp = Undefined
  /\ branch = "none"
  /\ ops = <<>>
  /\ caught = <<>>
  /\ issued = {}

\* req keeps the invocation under way: the entry point, its event, the
\* documents it found in the repository and the connection state it found.
Finish(kind, event, out) ==
  /\ out.st.nextId = nextId \/ nextId <= MaxIssued
  /\ req' = [kind |-> kind, event |-> event, found |-> docs, ready |-> readyState]
  /\ resp' = out.resp
  /\ branch' = out.branch
  /\ ops' = out.ops
  /\ caught' = out.caught
  /\ readyState' = out.st.readyState
  /\ docs' = out.st.docs
  /\ nextId' = out.st.nextId
  /\ UNCHANGED <<variant, clock, issued>>

\* An entry point runs only when the previous response has been delivered.
Idle == req.kind = "NONE"

\* The requests that do not read the repository are sent only while nothing
\* has been written to it (docs = InitialDocs), tools/list excepted; once a
\* session id has been issued or the clock has advanced, only tools/list
\* and the GET of a stream are sent (the clock enters nothing but the
\* session id of a stream).
Post ==
  /\ Idle
  /\ \/ \E event \in DataEvents, env \in Envs :
          /\ issued = {} /\ clock = 0
          /\ readyState = 0 \/ env.connectOk
          /\ \E out \in {mcpPost(event, State, env, variant)} : Finish("POST", event, out)
     \/ \E event \in Events \ DataEvents :
          /\ \/ docs = InitialDocs /\ issued = {} /\ clock = 0
             \/ MethodOf(event) = Lit("tools/list") /\ event.headers \in CoreHeaders
          /\ \E out \in {mcpPost(event, State, NoFailure, variant)} : Finish("POST", event, out)

GetStream ==
  \E event \in Events :
    /\ Idle /\ docs = InitialDocs
    /\ (issued = {} /\ clock = 0) \/ event.headers \in CoreHeaders
    /\ event.body = Undefined
    /\ \E out \in {mcpGet(event, State)} : Finish("GET", event, out)

Options ==
  \E event \in Events :
    /\ Idle /\ docs = InitialDocs /\ issued = {} /\ clock = 0
    /\ event.body = Undefined
    /\ \E out \in {mcpOptions(event, State)} : Finish("OPTIONS", event, out)

\* server.validateJWTToken(authorization), called on the server object as
\* its tests call it: resp is the user context returned, caught the message
\* of the error thrown.
Extract ==
  \E authorization \in AuthHeaders :
    /\ Idle /\ docs = InitialDocs /\ issued = {} /\ clock = 0
    /\ \E r \in {validateJWTToken(authorization)} :
         Finish("AUTH",
                [headers |-> Obj(Member("authorization", authorization)), body |-> Undefined],
                Outcome(r.v, r.k, State, <<"validateJWTToken">>, r.msg))

\* The platform hands the response to the client.
Deliver ==
  /\ ~Idle
  /\ req' = [kind |-> "NONE", event |-> NoEvent, found |-> <<>>, ready |-> 0]
  /\ resp' = Undefined
  /\ branch' = "none"
  /\ ops' = <<>>
  /\ caught' = <<>>
  /\ issued' = issued \cup (IF Has(Get(resp, "headers"), "X-Session-ID")
                            THEN {Get(Get(resp, "headers"), "X-Session-ID")} ELSE {})
  /\ UNCHANGED <<variant, readyState, docs, nextId, clock>>

\* Time passes between invocations.
Tick ==
  /\ Idle
  /\ clock < MaxClock
  /\ clock' = clock + 1
  /\ UNCHANGED <<variant, readyState, docs, nextId, req, resp, branch, ops, caught, issued>>

Next == Post \/ GetStream \/ Options \/ Extract \/ Deliver \/ Tick

Spec == Init /\ [][Next]_vars

(***************************************************************************)
(* Observations of the request being answered and of its response.         *)
(***************************************************************************)
Answered(kind) == req.kind = kind

ReqOrigin == HeaderOf(req.event, "origin", "Origin")
ReqBodyParses == JSONParse(OrElse(req.event.body, Str(EmptyObjectText)).s).ok
ReqMessage == MessageOf(req.event)
ReqMethod == Get(ReqMessage, "method")
ReqId == Get(ReqMessage, "id")
ReqParams == Get(ReqMessage, "params")
AcceptsJSON == SupportsJSON(req.event)
AcceptsSSE == SupportsSSE(req.event)
PassesOrigin == validateOrigin(ReqOrigin)
PassesAccept == AcceptsJSON \/ AcceptsSSE

StatusCode == Get(resp, "statusCode")
ResponseHeader(name) == Get(Get(resp, "headers"), name)
Body == Get(resp, "body").s

\* A one-frame SSE body: the field lines, then "data: ", the data and the
\* blank line that ends the frame.
IsFrame(body) ==
  /\ Cardinality({i \in 1..Len(body) : body[i] = "data: "}) = 1
  /\ Cardinality({i \in 1..Len(body) : body[i] = "\n\n"}) = 1
  /\ body[Len(body)] = "\n\n"
DataAt(body) == CHOOSE i \in 1..Len(body) : body[i] = "data: "
FrameHead(body) == SubSeq(body, 1, DataAt(body) - 1)
FrameData(body) == SubSeq(body, DataAt(body) + 1, Len(body) - 1)

\* The JSON-RPC message a response carries, in its JSON body or in the data
\* of its SSE frame.
ResponseMessage ==
  IF ResponseHeader("Content-Type") = Lit("text/event-stream")
  THEN JSONParse(FrameData(Body))
  ELSE JSONParse(Body)

\* The request methods the negotiation answers as JSON when it can.
RequestMethods ==
  {Lit("initialize"), Lit("tools/list"), Lit("resources/list"), Lit("tools/call"),
   Lit("resources/read")}

(***************************************************************************)
(* The claims.                                                             *)
(***************************************************************************)
\* C1: every POST that passes the origin check and whose Accept header names
\* neither application/json nor text/event-stream is answered with HTTP 400,
\* whatever its body carries.  A body that is not well-formed JSON is
\* answered 500 instead: JSON.parse runs, and throws, before the Accept
\* header is looked at.
C1_BadAcceptIs400 ==
  Answered("POST") /\ PassesOrigin /\ ~AcceptsJSON /\ ~AcceptsSSE
    => StatusCode = Num(400)

\* C2: every POST that passes the origin check, carries a method and names an
\* acceptable content type is answered 200, as application/json with a JSON
\* body iff Accept supports JSON and (the method is a request method or SSE
\* is not supported), as text/event-stream with a session id otherwise; the
\* fallback branch is never taken.  resources/read without params is
\* answered 500 instead.
C2_FramingTable ==
  Answered("POST") /\ PassesOrigin /\ ReqBodyParses /\ Truthy(ReqMethod) /\ PassesAccept
    => /\ StatusCode = Num(200)
       /\ branch # "fallback"
       /\ IF AcceptsJSON /\ (ReqMethod \in RequestMethods \/ ~AcceptsSSE)
          THEN /\ ResponseHeader("Content-Type") = Lit("application/json")
               /\ JSONParse(Body).ok
          ELSE /\ ResponseHeader("Content-Type") = Lit("text/event-stream")
               /\ Truthy(ResponseHeader("X-Session-ID"))

\* C3: every POST that passes the origin check, carries a method and accepts
\* application/json (and not text/event-stream) is answered with
\* Content-Type application/json and a JSON-RPC 2.0 body whose id is the id
\* of the request.  The 500 answer to resources/read without params carries
\* id null.
C3_JsonAnswerEchoesId ==
  Answered("POST") /\ PassesOrigin /\ ReqBodyParses /\ Truthy(ReqMethod)
      /\ AcceptsJSON /\ ~AcceptsSSE
    => /\ ResponseHeader("Content-Type") = Lit("application/json")
       /\ JSONParse(Body).ok
       /\ Get(JSONParse(Body).v, "jsonrpc") = Lit("2.0")
       /\ Get(JSONParse(Body).v, "id") = ReqId

\* C4: a POST answered as SSE carries one frame: the line 'id: <id>' iff the
\* request id is not null (0 included), then the line 'event: response',
\* then 'data: ' with the JSON of the response and a blank line.  The frame
\* of a request whose id is 0 has no id line.
C4_FrameOfPost ==
  Answered("POST") /\ branch = "sse"
    => /\ IsFrame(Body)
       /\ FrameHead(Body) =
            (IF ReqId.t \in {"undef", "null"} THEN <<>>
             ELSE <<"id: ">> \o Interp(ReqId) \o <<"\n">>)
            \o <<"event: ", "response", "\n">>
       /\ JSONParse(FrameData(Body)).ok

\* The message of the request carries result or error and no method.
CarriesResponseOnly ==
  /\ ReqBodyParses
  /\ ~Has(ReqMessage, "method")
  /\ Has(ReqMessage, "result") \/ Has(ReqMessage, "error")

\* The 202 answer: nothing in the body, no handler and no repository
\* operation run.
Accepted202 ==
  /\ StatusCode = Num(202)
  /\ Get(resp, "body") = Str(<<>>)
  /\ ops = <<>>
  /\ caught = <<>>

\* C5, as amended: every POST that passes the origin check, names
\* application/json or text/event-stream in its Accept header and carries
\* result or error but no method is answered 202 with an empty body, and no
\* handler or repository operation is run for it.
C5_ResponseOnlyIs202 ==
  Answered("POST") /\ PassesOrigin /\ PassesAccept /\ CarriesResponseOnly => Accepted202

\* C5, as stated: the 202 answer is given regardless of the Accept header.
C5_RegardlessOfAccept ==
  Answered("POST") /\ PassesOrigin /\ CarriesResponseOnly => Accepted202

\* A message with a null result, accepted on an Accept header that names
\* text/event-stream only.
C5_Witness ==
  /\ Answered("POST") /\ CarriesResponseOnly
  /\ Get(ReqMessage, "result") = Null
  /\ AcceptsSSE /\ ~AcceptsJSON
  /\ StatusCode = Num(202)

\* C6: every GET with a valid origin is answered 405 with Allow: POST when
\* its Accept header does not name text/event-stream, and otherwise 200 with
\* Content-Type text/event-stream, a non-empty X-Session-ID and a body of
\* exactly one frame, of event 'connected', whose data is
\* {type: 'connected', sessionId} with the session id of the header.
C6_GetNegotiation ==
  Answered("GET") /\ PassesOrigin
    => IF ~Includes(AcceptOf(req.event).s, <<"text/event-stream">>)
       THEN /\ StatusCode = Num(405)
            /\ ResponseHeader("Allow") = Lit("POST")
       ELSE /\ StatusCode = Num(200)
            /\ ResponseHeader("Content-Type") = Lit("text/event-stream")
            /\ ResponseHeader("X-Session-ID").t = "str"
            /\ ResponseHeader("X-Session-ID").s # <<>>
            /\ IsFrame(Body)
            /\ FrameHead(Body) = <<"event: ", "connected", "\n">>
            /\ JSONParse(FrameData(Body)).ok
            /\ JSONParse(FrameData(Body)).v =
                 Obj(<< <<"type", Lit("connected")>>,
                        <<"sessionId", ResponseHeader("X-Session-ID")>> >>)

\* A stream opened for an allow-listed origin.
C6_Witness ==
  /\ Answered("GET") /\ ReqOrigin = Str(ClaudeAi)
  /\ StatusCode = Num(200)
  /\ ResponseHeader("X-Session-ID") = Lit("1")

\* The origins C7 says are valid, with the empty string counted as absent.
OriginAllowed(origin) ==
  \/ origin = Undefined
  \/ origin = Str(<<>>)
  \/ Includes(origin.s, <<"localhost">>)
  \/ Includes(origin.s, <<"127.0.0.1">>)
  \/ \E i \in 1..Len(allowedOrigins) : origin = Str(allowedOrigins[i])

\* The origins C7 says are valid, as stated: only a missing origin is absent.
OriginAllowedAsStated(origin) ==
  \/ origin = Undefined
  \/ Includes(origin.s, <<"localhost">>)
  \/ Includes(origin.s, <<"127.0.0.1">>)
  \/ \E i \in 1..Len(allowedOrigins) : origin = Str(allowedOrigins[i])

\* C7, as amended: validateOrigin(origin) is true when origin is absent or
\* the empty string, true when it contains 'localhost' or '127.0.0.1', and
\* otherwise true iff origin is a member of the allow-list; a request is
\* rejected for its origin exactly when it is false, and nothing is run for
\* a rejected request.
C7_ValidateOrigin ==
  Answered("POST") \/ Answered("GET")
    => /\ validateOrigin(ReqOrigin) <=> OriginAllowed(ReqOrigin)
       /\ branch = "origin403" <=> ~OriginAllowed(ReqOrigin)
       /\ branch = "origin403" => ops = <<>>

\* C7, as stated: the empty string is no member of the allow-list, so it is
\* not valid.
C7_AbsentOnly ==
  Answered("POST") \/ Answered("GET")
    => (validateOrigin(ReqOrigin) <=> OriginAllowedAsStated(ReqOrigin))

\* A GET whose origin is the empty string is given its stream.
C7_Witness ==
  /\ Answered("GET") /\ ReqOrigin = Str(<<>>)
  /\ branch = "sse"
  /\ StatusCode = Num(200)

\* C8: every POST and every GET whose origin fails validateOrigin is answered
\* 403 with the body {error: 'Invalid origin'}, which is no JSON-RPC
\* envelope, whatever its Accept header and its body.
C8_InvalidOriginIs403 ==
  (Answered("POST") \/ Answered("GET")) /\ ~validateOrigin(ReqOrigin)
    => /\ StatusCode = Num(403)
       /\ JSONParse(Body).ok
       /\ JSONParse(Body).v = Obj(<< <<"error", Lit("Invalid origin")>> >>)
       /\ ~Has(JSONParse(Body).v, "jsonrpc")

\* A POST of a body that is not JSON, without an Accept header, rejected for
\* its origin.
C8_Witness ==
  /\ Answered("POST") /\ ReqOrigin = Str(Evil)
  /\ ~ReqBodyParses /\ ~PassesAccept
  /\ StatusCode = Num(403)

\* The answer to an unknown method: 200 carrying the JSON-RPC error -32601
\* with the id of the request.
MethodNotFoundAnswer ==
  /\ StatusCode = Num(200)
  /\ ResponseMessage.ok
  /\ Get(Get(ResponseMessage.v, "error"), "code") = Num(-32601)
  /\ ~Has(ResponseMessage.v, "result")
  /\ Get(ResponseMessage.v, "id") = ReqId

\* C9, as amended: every POST that passes the origin and the Accept checks
\* and carries a non-empty method other than initialize, tools/list,
\* resources/list, tools/call and resources/read is answered 200 carrying
\* the JSON-RPC error -32601 with the id of the request.
C9_UnknownMethod ==
  Answered("POST") /\ PassesOrigin /\ PassesAccept /\ ReqBodyParses
      /\ Truthy(ReqMethod) /\ ReqMethod \notin RequestMethods
    => MethodNotFoundAnswer

\* C9, as stated: every POST of such a method is answered so.
C9_EveryPost ==
  Answered("POST") /\ ReqBodyParses /\ Has(ReqMessage, "method")
      /\ ReqMethod \notin RequestMethods
    => MethodNotFoundAnswer

\* An unknown method with id 0, answered as an SSE frame.
C9_Witness ==
  /\ Answered("POST") /\ ReqMethod = Lit("unknown/method") /\ ReqId = Num(0)
  /\ branch = "sse"
  /\ Get(Get(ResponseMessage.v, "error"), "code") = Num(-32601)

\* A dispatched tools/call or resources/read whose params is an object.
Dispatched(method) ==
  /\ Answered("POST") /\ PassesOrigin /\ PassesAccept /\ ReqBodyParses
  /\ ReqMethod = Lit(method)
  /\ ReqParams.t = "obj"

\* The result member of the message the response carries.
Result == Get(ResponseMessage.v, "result")

\* The response is a JSON-RPC result, not an error.
CarriesResult ==
  /\ StatusCode = Num(200)
  /\ ResponseMessage.ok
  /\ Has(ResponseMessage.v, "result")
  /\ ~Has(ResponseMessage.v, "error")

\* The renderings of a caught error, as they read on the wire (a member
\* whose value is undefined is not written).
RenderedToolError(msg) ==
  Obj(<< <<"content", Arr(<< Obj(<< <<"type", Lit("text")>>,
                                    <<"text", Str(<<"Error: ">> \o msg)>> >>) >>)>>,
         <<"isError", Bool(TRUE)>> >>)

RenderedResourceError(uri, msg) ==
  Obj(<< <<"contents",
           Arr(<< Obj(Member("uri", uri)
                      \o << <<"mimeType", Lit("text/plain")>>,
                            <<"text", Str(<<"Error: ">> \o msg)>> >>) >>)>> >>)

KnownTools ==
  {Lit("get_exercises"), Lit("get_exercise_by_id"), Lit("search_exercises"),
   Lit("create_workout_program")}

KnownUris == {Str(ExercisesUri), Str(CategoriesUri), Str(StatsUri)}

\* C10: an error raised while a tool runs or a resource is read (an unknown
\* name or URI, a validation failure, a connection or repository failure) is
\* caught in the dispatcher: the response is a JSON-RPC result, which is
\* {content: [{type: 'text', text: 'Error: <msg>'}], isError: true} for
\* tools/call and {contents: [{uri, mimeType: 'text/plain', text:
\* 'Error: <msg>'}]} for resources/read; an unknown tool gives the message
\* 'Unknown tool: <name>', an unknown URI 'Unknown resource: <uri>'.
C10_ErrorsAreRendered ==
  /\ Dispatched("tools/call")
       => /\ CarriesResult
          /\ caught # <<>> => Result = RenderedToolError(caught)
          /\ caught = <<>> => ~Has(Result, "isError")
          /\ Get(ReqParams, "name") \notin KnownTools
               => caught \in {ConnectError,
                              <<"Unknown tool: ">> \o Interp(Get(ReqParams, "name"))}
  /\ Dispatched("resources/read")
       => /\ CarriesResult
          /\ caught # <<>> => Result = RenderedResourceError(Get(ReqParams, "uri"), caught)
          /\ Get(ReqParams, "uri") \notin KnownUris
               => caught \in {ConnectError,
                              <<"Unknown resource: ">> \o Interp(Get(ReqParams, "uri"))}

\* A tools/call that could not connect to the database, answered with the
\* rendered connection error.
C10_Witness ==
  /\ Dispatched("tools/call")
  /\ caught = ConnectError
  /\ Result = RenderedToolError(ConnectError)
  /\ readyState = 0

\* C11: every tools/call and every resources/read POST that passes the origin
\* and the Accept checks is answered 200 with a JSON-RPC message that has a
\* result and no error member, whatever its params are (absent params
\* included) and whatever the repository does.  Both dispatchers destructure
\* params before their try: without params tools/call is answered with the
\* JSON-RPC error -32603 and resources/read with HTTP 500.
C11_AlwaysResult ==
  Answered("POST") /\ PassesOrigin /\ PassesAccept /\ ReqBodyParses
      /\ ReqMethod \in {Lit("tools/call"), Lit("resources/read")}
    => CarriesResult

\* The Authorization header of the request.
ReqAuthorization == HeaderOf(req.event, "authorization", "Authorization")

\* C12: every POST and every GET whose Authorization header is missing, does
\* not start with 'Bearer ', cannot be decoded or has no user-id claim is
\* answered 401 carrying the JSON-RPC error -32001, and nothing is dispatched
\* for it.  mcpPost and mcpGet never read the Authorization header: such a
\* request is answered like any other.
C12_Unauthorized401 ==
  (Answered("POST") \/ Answered("GET")) /\ validateJWTToken(ReqAuthorization).k = "throw"
    => /\ StatusCode = Num(401)
       /\ JSONParse(Body).ok
       /\ Get(Get(JSONParse(Body).v, "error"), "code") = Num(-32001)
       /\ ops = <<>>

\* The payloads a token is signed over: objects with and without each of
\* the claims user._id, _id, userId and sub.
SignedClaims ==
  {Obj(Member("user", user) \o Member("_id", id) \o Member("userId", userId)
       \o Member("sub", sub)) :
     user \in {Undefined, Null, Obj(<<>>), Obj(<< <<"_id", Lit("u1")>> >>)},
     id \in {Undefined, Lit("u2")},
     userId \in {Undefined, Str(<<>>), Lit("u3")},
     sub \in {Undefined, Lit("u4")}}
  \cup {Obj(<< <<"someOtherField", Lit("u1")>> >>)}

Signatures == {"secret", "forged"}

\* The header is 'Bearer ' and a token signed over the payload.
Carries(header, payload) ==
  \E sig \in Signatures : header = Str(<<"Bearer ">> \o jwtSign(payload, sig))

\* The values a payload has at the four claim paths.
ClaimValues(payload) ==
  {Get(Get(payload, "user"), "_id"), Get(payload, "_id"), Get(payload, "userId"),
   Get(payload, "sub")} \ {Undefined, Null, Str(<<>>)}

\* The argument validateJWTToken was called with.
Argument == Get(req.event.headers, "authorization")

\* The extractor threw the error of this message.
Thrown(msg) == branch = "throw" /\ caught = msg /\ resp = Undefined

\* C13: validateJWTToken fails with 'Authorization header is required' when
\* the header is absent, with a format error when it does not start with
\* 'Bearer ', with 'Invalid JWT token format' when the payload cannot be
\* decoded and with 'User ID not found' when none of the claims user._id,
\* _id, userId, sub has a value; otherwise it returns the userId found at one
\* of those claims with the decoded payload; the outcome is the same for
\* every signature of the token.
C13_Extractor ==
  Answered("AUTH") =>
    IF Argument = Undefined
    THEN Thrown(<<"Authorization header is required">>)
    ELSE IF Argument.s = <<>> \/ Head(Argument.s) # "Bearer "
    THEN /\ branch = "throw" /\ resp = Undefined
         /\ caught \notin {<<>>, <<"Authorization header is required">>,
                           <<"Invalid JWT token format">>, <<"User ID not found">>}
    ELSE IF ~\E p \in SignedClaims : Carries(Argument, p)
    THEN Thrown(<<"Invalid JWT token format">>)
    ELSE \A p \in SignedClaims :
           Carries(Argument, p) =>
             /\ IF ClaimValues(p) = {} THEN Thrown(<<"User ID not found">>)
                ELSE /\ branch = "ret" /\ caught = <<>>
                     /\ Get(resp, "userId") \in ClaimValues(p)
                     /\ Get(resp, "claims") = p
             /\ \A sig \in Signatures :
                  validateJWTToken(Str(<<"Bearer ">> \o jwtSign(p, sig)))
                    = [k |-> branch, v |-> resp, msg |-> caught]

\* A token over {sub: 'u4'} with a forged signature yields the user u4.
C13_Witness ==
  /\ Answered("AUTH")
  /\ Argument = Str(<<"Bearer ">> \o jwtSign(Obj(<< <<"sub", Lit("u4")>> >>), "forged"))
  /\ branch = "ret"
  /\ resp = Obj(<< <<"userId", Lit("u4")>>, <<"claims", Obj(<< <<"sub", Lit("u4")>> >>)>> >>)

\* C14: a POST whose body is not well-formed JSON is treated as the empty
\* message {}: it is answered 400, from the 'no method' branch when its
\* Accept header is acceptable, as a POST without a body is.  JSON.parse
\* throws on such a body and the request is answered 500.
C14_MalformedIs400 ==
  Answered("POST") /\ PassesOrigin /\ ~ReqBodyParses
    => /\ StatusCode = Num(400)
       /\ PassesAccept => branch = "invalid400"

\* The requests whose handling raises an error that nothing catches before
\* the outer catch of mcpPost: a body JSON.parse rejects, a message that is
\* null, resources/read with params that cannot be destructured.
Escapes ==
  /\ PassesOrigin
  /\ \/ ~ReqBodyParses
     \/ /\ PassesAccept
        /\ \/ ~CanRead(ReqMessage)
           \/ ReqMethod = Lit("resources/read") /\ ~CanRead(ReqParams)

\* The message of that error.
EscapedMessage ==
  IF ~ReqBodyParses THEN SyntaxError
  ELSE IF ~CanRead(ReqMessage)
  THEN <<"Cannot read properties of ">> \o Interp(ReqMessage) \o <<" (reading 'method')">>
  ELSE DestructureError("uri", "params", ReqParams)

\* The body is {jsonrpc: '2.0', error: {code: -32603, message: 'Internal
\* error', data}, id: null}.
IsInternalErrorBody(body, data) ==
  /\ JSONParse(body).ok
  /\ Len(JSONParse(body).v.m) = 3
  /\ Get(JSONParse(body).v, "jsonrpc") = Lit("2.0")
  /\ Has(JSONParse(body).v, "id") /\ Get(JSONParse(body).v, "id") = Null
  /\ Len(Get(JSONParse(body).v, "error").m) = 3
  /\ Get(Get(JSONParse(body).v, "error"), "code") = Num(-32603)
  /\ Get(Get(JSONParse(body).v, "error"), "message") = Lit("Internal error")
  /\ Get(Get(JSONParse(body).v, "error"), "data") = Str(data)

\* C15: every POST returns a response (mcpPost never rejects); an error that
\* escapes uncaught during its handling yields HTTP 500 with the body
\* {jsonrpc: '2.0', error: {code: -32603, message: 'Internal error', data:
\* <error message>}, id: null}, and 500 is answered for nothing else.
C15_UncaughtIs500 ==
  Answered("POST") =>
    /\ resp.t = "obj" /\ StatusCode.t = "num" /\ Get(resp, "body").t = "str"
    /\ Escapes <=> StatusCode = Num(500)
    /\ Escapes => IsInternalErrorBody(Body, EscapedMessage)

\* A POST of the JSON text null: reading its method throws.
C15_Witness ==
  /\ Answered("POST") /\ ReqBodyParses /\ ReqMessage = Null
  /\ StatusCode = Num(500)
  /\ IsInternalErrorBody(Body, <<"Cannot read properties of ", "null", " (reading 'method')">>)

\* The text is a JSON object of the shape {jsonrpc: '2.0', error: {code,
\* message, data}, id}.
IsJsonRpcError(body) ==
  /\ JSONParse(body).ok /\ JSONParse(body).v.t = "obj"
  /\ Get(JSONParse(body).v, "jsonrpc") = Lit("2.0")
  /\ Has(JSONParse(body).v, "id")
  /\ Get(JSONParse(body).v, "error").t = "obj"
  /\ Has(Get(JSONParse(body).v, "error"), "code")
  /\ Has(Get(JSONParse(body).v, "error"), "message")
  /\ Has(Get(JSONParse(body).v, "error"), "data")

\* The response carries a JSON error body: its status is 400, 401 or 500,
\* or its status is 200 and its body is an object with an error member.
CarriesErrorBody ==
  \/ StatusCode \in {Num(400), Num(401), Num(500)}
  \/ StatusCode = Num(200) /\ JSONParse(Body).ok /\ Has(JSONParse(Body).v, "error")

\* C16: every POST response that carries a JSON error body (status 400, 401
\* or 500, and an error response inside a 200) has a body of the JSON-RPC
\* shape {jsonrpc: '2.0', error: {code, message, data}, id}.
C16_ErrorBodiesAreJsonRpc ==
  Answered("POST") /\ CarriesErrorBody => IsJsonRpcError(Body)

\* C17: every response of mcpPost, mcpGet and mcpOptions, success or error,
\* carries Access-Control-Allow-Origin: *, Access-Control-Allow-Headers:
\* Content-Type, Accept, Origin, Authorization and
\* Access-Control-Allow-Methods: GET, POST, OPTIONS, the origin-rejection 403
\* alone excepted.
C17_CorsOnEveryResponse ==
  (Answered("POST") \/ Answered("GET") \/ Answered("OPTIONS")) /\ StatusCode # Num(403)
    => /\ Get(Get(resp, "headers"), "Access-Control-Allow-Origin") = Lit("*")
       /\ Get(Get(resp, "headers"), "Access-Control-Allow-Headers")
            = Lit("Content-Type, Accept, Origin, Authorization")
       /\ Get(Get(resp, "headers"), "Access-Control-Allow-Methods") = Lit("GET, POST, OPTIONS")

\* A tools/call of create_workout_program that reached the tool: the server
\* has the tool and the database connection was there.
CreateCall ==
  /\ Dispatched("tools/call") /\ variant = 1
  /\ Get(ReqParams, "name") = Lit("create_workout_program")
  /\ caught # ConnectError

CreateRequest == Get(ReqParams, "arguments")
GivenProgram == Get(CreateRequest, "program")
GivenWorkouts == Get(CreateRequest, "workouts")
GivenSchedule == Get(CreateRequest, "program_schedule")

\* The create calls the invocation issued.
Creates == Cardinality({i \in 1..Len(ops) : ops[i] = "create"})

\* The conditions under which the request is rejected.
MissingFields ==
  GivenProgram = Undefined \/ GivenWorkouts = Undefined \/ GivenSchedule = Undefined
NoWorkouts == GivenWorkouts.t # "arr" \/ GivenWorkouts.m = <<>>
NoSchedule == GivenSchedule.t # "arr" \/ GivenSchedule.m = <<>>
OutOfRange(index) == index.t = "num" /\ (index.n < 0 \/ index.n >= Len(GivenWorkouts.m))
BadReference ==
  /\ GivenSchedule.t = "arr" /\ GivenWorkouts.t = "arr"
  /\ \E i \in 1..Len(GivenSchedule.m) : OutOfRange(Get(GivenSchedule.m[i][2], "workout_index"))
InvalidRequest == MissingFields \/ NoWorkouts \/ NoSchedule \/ BadReference

\* The tool result is the rendering of a caught error whose message starts
\* with the text.
RejectedWith(text) ==
  /\ CarriesResult /\ Result = RenderedToolError(caught)
  /\ Len(caught) >= Len(text) /\ SubSeq(caught, 1, Len(text)) = text

\* C18: createWorkoutProgram rejects the request before issuing any create
\* call when program, workouts or program_schedule is missing ('Missing
\* required fields'), when workouts is not a non-empty array ('At least one
\* workout is required'), when program_schedule is not a non-empty array, or
\* when a schedule entry's workout_index lies outside [0, workouts.length)
\* ('Invalid workout_index'); the message is that of the first of these
\* conditions that holds.  Through tools/call the rejection is a result with
\* isError: true, and the repository is unchanged.
C18_RejectedBeforeCreate ==
  CreateCall /\ InvalidRequest =>
    /\ Creates = 0 /\ docs = req.found
    /\ RejectedWith(<<>>) /\ Get(Result, "isError") = Bool(TRUE)
    /\ CreateRequest.t = "obj" =>
         IF MissingFields
         THEN RejectedWith(<<"Missing required fields: program, workouts, and program_schedule are required">>)
         ELSE IF NoWorkouts THEN RejectedWith(<<"At least one workout is required">>)
         ELSE IF NoSchedule THEN RejectedWith(<<"Program schedule is required">>)
         ELSE RejectedWith(<<"Invalid workout_index ">>)

\* workout_index 5 with two workouts: rejected, nothing created.
C18_Witness ==
  /\ CreateCall /\ Len(GivenWorkouts.m) = 2
  /\ \E i \in 1..Len(GivenSchedule.m) : Get(GivenSchedule.m[i][2], "workout_index") = Num(5)
  /\ RejectedWith(<<"Invalid workout_index ", "5">>)
  /\ Get(Result, "isError") = Bool(TRUE)
  /\ Creates = 0 /\ docs = req.found

\* The documents the invocation added to the repository, in the order in
\* which their create calls completed.
Added == SubSeq(docs, Len(req.found) + 1, Len(docs))

\* The run succeeded: the tool returned its report.
CreateSucceeded == CreateCall /\ caught = <<>> /\ CarriesResult /\ ~Has(Result, "isError")

\* C19: in a successful createWorkoutProgram run the create calls are issued
\* in order, one per workout in array order and then exactly one for the
\* program, which is created after every workout; the program has one
\* section per program_schedule entry, in schedule order, whose workout is
\* the generated id of the workout created at that entry's workout_index.
C19_WorkoutsThenProgram ==
  CreateSucceeded =>
    LET n == Len(GivenWorkouts.m)
        program == Added[n + 1]
    IN  /\ Creates = n + 1
        /\ Len(Added) = n + 1
        /\ SubSeq(docs, 1, Len(req.found)) = req.found
        /\ \A i \in 1..n :
             /\ Added[i].item_type = "workouts"
             /\ Str(Added[i].title) = Get(GivenWorkouts.m[i][2], "title")
        /\ program.item_type = "workout-program"
        /\ Str(program.title) = Get(GivenProgram, "title")
        /\ \A i, j \in 1..(n + 1) : i # j => Added[i].id # Added[j].id
        /\ \A i \in 1..(n + 1) : \A j \in 1..Len(req.found) : Added[i].id # req.found[j].id
        /\ Len(program.sections) = Len(GivenSchedule.m)
        /\ \A i \in 1..Len(GivenSchedule.m) :
             /\ program.sections[i].day = Get(GivenSchedule.m[i][2], "day")
             /\ program.sections[i].workout
                  = Added[Get(GivenSchedule.m[i][2], "workout_index").n + 1].id

\* Two workouts scheduled as 1, 0, 1: the sections refer to the second, the
\* first and the second workout created.
C19_Witness ==
  /\ CreateSucceeded
  /\ Len(GivenWorkouts.m) = 2 /\ Len(Added) = 3
  /\ [i \in 1..3 |-> Get(GivenSchedule.m[i][2], "workout_index")] = <<Num(1), Num(0), Num(1)>>
  /\ [i \in 1..3 |-> Added[3].sections[i].workout] = <<Added[2].id, Added[1].id, Added[2].id>>
  /\ Added[1].id # Added[2].id

\* A create call of the invocation failed: more create calls were issued
\* than documents were added.
CreateCallFailed == CreateCall /\ Creates > Len(Added)

\* C20: if the k-th create call of createWorkoutProgram fails there is no
\* rollback: the k-1 documents created before it (workouts, no program) stay
\* in the repository, no further create is issued, and the call fails with
\* 'Failed to create workout program: <msg>', which tools/call renders as an
\* isError: true result.
C20_NoRollback ==
  CreateCallFailed =>
    LET k == Creates
    IN  /\ k <= Len(GivenWorkouts.m) + 1
        /\ Len(Added) = k - 1
        /\ docs = req.found \o Added
        /\ \A i \in 1..(k - 1) :
             /\ Added[i].item_type = "workouts"
             /\ Str(Added[i].title) = Get(GivenWorkouts.m[i][2], "title")
        /\ caught = <<"Failed to create workout program: ">> \o RepositoryError
        /\ CarriesResult /\ Result = RenderedToolError(caught)
        /\ Get(Result, "isError") = Bool(TRUE)

\* The third create call, that of the program, fails: the two workouts stay.
C20_Witness ==
  /\ CreateCallFailed /\ Creates = 3
  /\ Len(Added) = 2 /\ Len(docs) = Len(req.found) + 2
  /\ Added[1].item_type = "workouts" /\ Added[2].item_type = "workouts"
  /\ Get(Result, "isError") = Bool(TRUE)

\* A POST of tools/list that was dispatched.
ListedTools ==
  /\ Answered("POST") /\ PassesOrigin /\ PassesAccept /\ ReqBodyParses
  /\ ReqMethod = Lit("tools/list")

\* The names of the descriptors of an array.
NamesOf(array) == [i \in 1..Len(array.m) |-> Get(array.m[i][2], "name")]

\* C21: a tools/list POST returns the static descriptor table, whatever
\* requests (tools/call and create_workout_program among them) ran before
\* it: the response is determined by the headers and the id of the request
\* alone, so that two such POSTs with identical headers return identical
\* tools arrays.
C21_ToolsListIsStatic ==
  ListedTools =>
    /\ CarriesResult
    /\ Get(Result, "tools") = Arr(ToolTable(variant))
    /\ NamesOf(Get(Result, "tools"))
         = <<Lit("get_exercises"), Lit("get_exercise_by_id"), Lit("search_exercises")>>
           \o (IF variant = 1 THEN <<Lit("create_workout_program")>> ELSE <<>>)
    /\ branch = "json" => Body = JSONStringify(ResultResponse(ReqId,
                                   Obj(<< <<"tools", Arr(ToolTable(variant))>> >>)))
    /\ docs = req.found

\* tools/list answered after create_workout_program wrote a program and its
\* workouts.
C21_Witness ==
  /\ ListedTools /\ variant = 1
  /\ \E i \in 1..Len(docs) : docs[i].item_type = "workout-program"
  /\ Len(Get(Result, "tools").m) = 4

\* The response of a POST carries a JSON-RPC response object: a dispatched
\* message answered as JSON or as SSE data, or the 500 body.
CarriesResponseObject ==
  Answered("POST") /\ branch \in {"json", "sse", "fallback", "error500"}

\* C22: every JSON-RPC response object produced by mcpPost (in a JSON body,
\* as SSE data, and in the 500 body) contains exactly one of the members
\* result and error.
C22_ResultXorError ==
  CarriesResponseObject =>
    /\ ResponseMessage.ok /\ ResponseMessage.v.t = "obj"
    /\ Has(ResponseMessage.v, "result") # Has(ResponseMessage.v, "error")

\* A tools/call whose handler threw before its try block: answered as SSE
\* data carrying the error -32603 and no result.
C22_Witness ==
  /\ CarriesResponseObject /\ branch = "sse"
  /\ ReqMethod = Lit("tools/call")
  /\ Has(ResponseMessage.v, "error") /\ ~Has(ResponseMessage.v, "result")

\* The response opens an SSE stream: a POST answered as SSE, or a GET.
OpensStream ==
  /\ Answered("POST") \/ Answered("GET")
  /\ StatusCode = Num(200)
  /\ ResponseHeader("Content-Type") = Lit("text/event-stream")

\* C23: each SSE response is issued a fresh session id: its X-Session-ID is
\* that of no SSE response delivered before it.
C23_FreshSessionId ==
  OpensStream => ResponseHeader("X-Session-ID") \notin issued

\* A dispatched POST of a request method whose Accept header names both
\* text/event-stream and application/json.
AcceptsBoth ==
  /\ Answered("POST") /\ PassesOrigin /\ ReqBodyParses
  /\ AcceptsJSON /\ AcceptsSSE
  /\ ReqMethod \in RequestMethods

ReturnedEntries ==
  IF Has(Result, "content") THEN Get(Result, "content") ELSE Get(Result, "contents")

ReturnedPayload == JSONParse(Get(ReturnedEntries.m[1][2], "text").s)

ReadSucceeded ==
  /\ Dispatched("tools/call") \/ Dispatched("resources/read")
  /\ CarriesResult /\ caught = <<>>
  /\ ReturnedEntries.t = "arr" /\ ReturnedEntries.m # <<>>
  /\ ReturnedPayload.ok

\* The exercises the payload returns: those of its exercises array, or its
\* exercise member.
ReturnedExercises ==
  IF Get(ReturnedPayload.v, "exercises").t = "arr" THEN Elems(Get(ReturnedPayload.v, "exercises"))
  ELSE IF Has(ReturnedPayload.v, "exercise") THEN <<Get(ReturnedPayload.v, "exercise")>>
  ELSE <<>>

\* The published exercises of the repository.
PublishedExercises ==
  {i \in 1..Len(docs) : docs[i].item_type = "exercise" /\ docs[i].published_at # Null}

\* C25: every exercise returned by a tool or a resource is a repository
\* document with item_type 'exercise' and a non-null published_at, and the
\* total of exercise://stats counts such documents only.
C25_OnlyPublishedExercises ==
  ReadSucceeded =>
    /\ \A k \in 1..Len(ReturnedExercises) :
         /\ Get(ReturnedExercises[k], "published_at") # Null
         /\ \E i \in PublishedExercises : Lit(docs[i].id) = Get(ReturnedExercises[k], "id")
    /\ Has(ReturnedPayload.v, "totalExercises")
         => Get(ReturnedPayload.v, "totalExercises").n <= Cardinality(PublishedExercises)

\* A POST or a GET that ended with a transport error.
TransportError ==
  /\ Answered("POST") \/ Answered("GET")
  /\ StatusCode \in {Num(400), Num(403), Num(405)}

\* C26: a POST or GET that ends with status 400, 403 or 405 invoked no
\* method handler and performed no connection and no repository operation,
\* and the repository is what the request found.
C26_TransportErrorsShortCircuit ==
  TransportError => ops = <<>> /\ caught = <<>> /\ docs = req.found

\* A tools/call is rejected for its Accept header with no handler run and
\* the repository untouched.
C26_Witness ==
  /\ TransportError /\ branch = "accept400"
  /\ ReqMethod = Lit("tools/call")
  /\ ops = <<>> /\ docs = req.found

\* The calls of mongoose.connect the invocation made.
Connects == {i \in 1..Len(ops) : ops[i] = "connect"}

\* The invocation ran its handler past ensureDbConnection.
UsedRepository == \E i \in 1..Len(ops) : ops[i] \in RepoOps

ListedNames == {Get(ToolTable(variant)[i], "name") : i \in 1..Len(ToolTable(variant))}
ListedUris == {Get(ResourceTable[i], "uri") : i \in 1..Len(ResourceTable)}

ListedResources ==
  /\ Answered("POST") /\ PassesOrigin /\ PassesAccept /\ ReqBodyParses
  /\ ReqMethod = Lit("resources/list")

\* The dispatcher found no handler for the name (the URI) of the request.
UnknownTool == caught = <<"Unknown tool: ">> \o Interp(Get(ReqParams, "name"))
UnknownResource == caught = <<"Unknown resource: ">> \o Interp(Get(ReqParams, "uri"))

\* C28: in each variant the names tools/list returns are the names
\* tools/call binds to a handler, every other name giving 'Unknown tool:
\* <name>', and the URIs resources/list returns are the URIs resources/read
\* serves, every other URI giving 'Unknown resource: <uri>' (a call that
\* could not connect never reaches the switch).
C28_ListingMatchesDispatch ==
  /\ ListedTools /\ CarriesResult
       => {Get(Get(Result, "tools").m[i][2], "name") : i \in 1..Len(Get(Result, "tools").m)}
            = ListedNames
  /\ ListedResources /\ CarriesResult
       => {Get(Get(Result, "resources").m[i][2], "uri") : i \in 1..Len(Get(Result, "resources").m)}
            = ListedUris
  /\ Dispatched("tools/call") /\ caught # ConnectError
       => (UnknownTool <=> Get(ReqParams, "name") \notin ListedNames)
  /\ Dispatched("resources/read") /\ caught # ConnectError
       => (UnknownResource <=> Get(ReqParams, "uri") \notin ListedUris)

\* The variant that does not list create_workout_program does not bind it.
C28_Witness ==
  /\ variant = 2
  /\ Dispatched("tools/call")
  /\ Get(ReqParams, "name") = Lit("create_workout_program")
  /\ UnknownTool
  /\ Result = RenderedToolError(caught)

\* The validation of createWorkoutProgram accepted the request and no create
\* call failed.
CreateAccepted ==
  /\ CreateCall /\ CreateRequest.t = "obj" /\ ~InvalidRequest
  /\ Creates = Len(Added)

\* C29: whenever the validation of createWorkoutProgram accepts a request,
\* whatever the workout_index values of its schedule (a missing or a
\* non-integer one included), every schedule entry resolves to one of the
\* created workouts, so that the sections are built, the program is created
\* after the workouts and no workout is left without its program.
C29_AcceptedScheduleResolves ==
  CreateAccepted =>
    /\ \A i \in 1..Len(GivenSchedule.m) :
         LET index == Get(GivenSchedule.m[i][2], "workout_index")
         IN  index.t = "num" /\ index.n >= 0 /\ index.n < Len(GivenWorkouts.m)
    /\ caught = <<>>
    /\ Len(Added) = Len(GivenWorkouts.m) + 1
    /\ Added[Len(Added)].item_type = "workout-program"

\* A string of lowercase letters, digits and hyphens.
IsSlugText(s) == \A i \in 1..Len(s) : s[i] \in LowerCase \cup Digits \cup {"-"}

NoHyphenRun(s) == \A i \in 1..(Len(s) - 1) : ~(s[i] = "-" /\ s[i + 1] = "-")

NoEdgeHyphen(s) == s # <<>> => s[1] # "-" /\ s[Len(s)] # "-"

\* The item of the request the i-th document added was created from: the
\* workouts in array order, then the program.
CreatedFrom(i) ==
  IF i <= Len(GivenWorkouts.m) THEN GivenWorkouts.m[i][2] ELSE GivenProgram

\* C30: the slug of a created workout or program is the slug the caller
\* supplied, and generateSlug(title) only when none was supplied; a
\* generated slug is made of lowercase letters, digits and hyphens only,
\* has no two consecutive hyphens and has no leading or trailing hyphen.
C30_SlugsAreWellFormed ==
  CreateCall =>
    \A i \in 1..Len(Added) :
      IF Truthy(Get(CreatedFrom(i), "slug"))
      THEN Added[i].slug = Get(CreatedFrom(i), "slug").s
      ELSE /\ Added[i].slug = generateSlug(Get(CreatedFrom(i), "title").s)
           /\ IsSlugText(Added[i].slug)
           /\ NoHyphenRun(Added[i].slug)
           /\ NoEdgeHyphen(Added[i].slug)

====
